---- MODULE Spec2Model ----
(***************************************************************************)
(* Leader-hotkeys plugin: the key-chord value type (KeyPress), the prefix  *)
(* tree of registered sequences (TrieNode / Trie), the live matcher        *)
(* (KeyMatcher) and the plugin's keydown handler, modelled from the latest *)
(* snapshot of the plugin source.                                          *)
(***************************************************************************)
EXTENDS Naturals, Sequences, FiniteSets, TLC

\* the plugin: its trie, the key maps added to it, its matcher and what the
\* keydown handler did with the last event
VARIABLES trie, hotkeys, threw, matcher, fed, defaultPrevented, executed

\* a trie used on its own: the Trie.add calls made on it and the last lookup
VARIABLES calls, lookup

pluginVars == <<hotkeys, threw, matcher, fed, defaultPrevented, executed>>

trieVars == <<calls, lookup>>

\* the modal that captures a new sequence: its RegisterMachine, the key
\* presses it was sent, and what its keydown handler did
VARIABLES register, pressed, contentEl, modalPrevented, newKeys, closed

modalVars == <<register, pressed, contentEl, modalPrevented, newKeys, closed>>

\* the settings tab: plugin.settings, the objects it and the trie refer to,
\* the tab's tempNewHotkey, the notices shown, what saveData last wrote and
\* the number of clicks made in the tab
VARIABLES settings, heap, tempNewHotkey, notices, savedData, clicks

\* the modal the tab of src/src/main.ts has opened, if any
VARIABLES openModal

settingsVars ==
    <<settings, heap, tempNewHotkey, notices, savedData, clicks, openModal>>

\* KeyPress on its own: two key presses and what the last method called on
\* them returned
VARIABLES keyPressPair, returned

keyPressVars == <<keyPressPair, returned>>

\* onload: the error that ended it, if any, and whether the keydown handler
\* of the plugin is registered on the workspace
VARIABLES loadError, keydownRegistered

onloadVars == <<loadError, keydownRegistered>>

\* the StateMachine of the earlier versions of the plugin
VARIABLES stateMachine

earlierVars == <<stateMachine>>

\* what the plugin's specification leaves alone
outsidePlugin == <<trieVars, modalVars, settingsVars, keyPressVars, onloadVars, earlierVars>>

\* what the specification of a trie on its own leaves alone
outsideTrie == <<pluginVars, modalVars, settingsVars, keyPressVars, onloadVars, earlierVars>>

\* what the specification of the modal leaves alone
outsideModal == <<trie, pluginVars, trieVars, settingsVars, keyPressVars, onloadVars, earlierVars>>

\* what the specification of the settings tab leaves alone
outsideSettings ==
    <<hotkeys, fed, defaultPrevented, executed, trieVars, modalVars, keyPressVars, onloadVars, earlierVars>>

\* what the specification of the settings tab of src/src/main.ts leaves alone
outsideMain == <<trie, pluginVars, trieVars, modalVars, keyPressVars, onloadVars, earlierVars>>

\* what the specification of KeyPress on its own leaves alone
outsideKeyPress ==
    <<trie, pluginVars, trieVars, modalVars, settingsVars, onloadVars, earlierVars>>

\* what the specification of the plugin from its onload leaves alone
outsideOnload ==
    <<hotkeys, trieVars, modalVars, keyPressVars, tempNewHotkey, notices, savedData, clicks,
      openModal, earlierVars>>

vars == <<trie, pluginVars, trieVars, modalVars, settingsVars, keyPressVars, onloadVars, earlierVars>>

\* ------------------------------------------------------------------ bounds
\* Number of Trie.add calls made before a matcher is constructed.
MaxAdds == 2
\* Number of keydown events delivered to one matcher.
MaxKeys == 4
\* Number of Trie.add calls made on a trie used on its own.
MaxCalls == 3
\* Length of the sequences looked up in a trie used on its own.
MaxLookup == 3
\* Number of keydown events delivered to one modal.
MaxPresses == 5
\* Number of clicks made in the settings tab.
MaxClicks == 4
\* With the plugin and a modal both live: key maps loaded, and keydown
\* events delivered to the two together.
MaxBothAdds == 1
MaxBothKeys == 5

\* ------------------------------------------------------- general helpers
Range(s) == {s[i] : i \in 1..Len(s)}

\* JavaScript's two absent values, kept apart because Trie.add tests
\* `!== undefined` only.
Undefined == [tag |-> "undefined"]
Null == [tag |-> "null"]

\* key values that are no string (KeyPress.key can be null or undefined)
NullKey == "<null>"
UndefinedKey == "<undefined>"

\* Length of the modifier list of a custom command.
MaxModifiers == 2

\* Number of hotkeys in a persisted list of main.ts.
MaxSaved == 3

\* Number of key maps in a persisted list.
MaxSavedKeymaps == 2
\* Number of keydown events typed after onload.
MaxTyped == 11

\* Number of keydown events handled by the plugin of main.ts.
MaxMainKeys == 4

\* ------------------------------------------------------------- KeyPress
\* new KeyPress(key, shift, alt, ctrl, meta)
KeyPress(key, shift, alt, ctrl, meta) ==
    [key |-> key, shift |-> shift, alt |-> alt, ctrl |-> ctrl, meta |-> meta]

KeyPressCtrl(key) == KeyPress(key, FALSE, FALSE, TRUE, FALSE)

KeyPressShift(key) == KeyPress(key, TRUE, FALSE, FALSE, FALSE)

KeyPressJust(key) == KeyPress(key, FALSE, FALSE, FALSE, FALSE)

KeyPressAlt(key) == KeyPress(key, FALSE, TRUE, FALSE, FALSE)

KeyPressMeta(key) == KeyPress(key, FALSE, FALSE, FALSE, TRUE)

KeyPressCtrlAlt(key) == KeyPress(key, FALSE, TRUE, TRUE, FALSE)

\* Array.contains(name) on the modifier list of a custom command
modifiersContains(modifiers, name) == \E i \in 1..Len(modifiers) : modifiers[i] = name

\* KeyPress.fromCustom(binding): the constructor takes (key, shift, alt, ctrl,
\* meta) and is handed (key, shift, ctrl, alt, meta)
fromCustom(binding) ==
    LET key == binding.key
        shift == modifiersContains(binding.modifiers, "Shift")
        ctrl == modifiersContains(binding.modifiers, "Ctrl")
        alt == modifiersContains(binding.modifiers, "Alt")
        meta == modifiersContains(binding.modifiers, "Meta")
    IN  KeyPress(key, shift, ctrl, alt, meta)

\* KeyPress.of(keyPressLike)
KeyPressOf(keyPressLike) ==
    KeyPress(keyPressLike.key, keyPressLike.shift, keyPressLike.alt, keyPressLike.ctrl,
             keyPressLike.meta)

\* KeyPress.fromEvent(event)
fromEvent(event) ==
    KeyPress(event.key, event.shiftKey, event.altKey, event.ctrlKey, event.metaKey)

\* What string concatenation makes of this.key.
KeyText(key) ==
    IF key = NullKey THEN "null"
    ELSE IF key = UndefinedKey THEN "undefined"
    ELSE key

\* repr with the markers in the order of the declarations
repr_AltBeforeCtrl(k) ==
    LET metaRepr == IF k.meta THEN "<U+2318> + " ELSE ""
        altRepr == IF k.alt THEN "Alt + " ELSE ""
        ctrlRepr == IF k.ctrl THEN "Ctrl + " ELSE ""
        shiftRepr == IF k.shift THEN "<U+21E7> + " ELSE ""
    IN  metaRepr \o altRepr \o ctrlRepr \o shiftRepr \o KeyText(k.key)

\* The two non-ASCII markers of repr() are written by their code points.
repr(k) ==
    LET metaRepr == IF k.meta THEN "<U+2318> + " ELSE ""
        altRepr == IF k.alt THEN "Alt + " ELSE ""
        ctrlRepr == IF k.ctrl THEN "Ctrl + " ELSE ""
        shiftRepr == IF k.shift THEN "<U+21E7> + " ELSE ""
    IN  metaRepr \o ctrlRepr \o altRepr \o shiftRepr \o KeyText(k.key)

serialize(k) == repr(k)

\* KeyClassification
NoKey == "NoKey"
SpecialKey == "SpecialKey"
NormalKey == "NormalKey"

\* classification that takes Escape for an ordinary key
classification_EscapeIsNormal(k) ==
    IF k.key \in {NullKey, UndefinedKey, "Alt", "Control", "Shift", "Meta"} THEN NoKey
    ELSE IF k.key = "Enter" THEN SpecialKey
    ELSE NormalKey

classification(k) ==
    IF \/ k.key = NullKey
       \/ k.key = UndefinedKey
       \/ k.key = "Alt"
       \/ k.key = "Control"
       \/ k.key = "Shift"
       \/ k.key = "Meta"
    THEN NoKey
    ELSE IF k.key = "Enter" \/ k.key = "Escape"
         THEN SpecialKey
         ELSE NormalKey

\* --------------------------------------------------------------- KeyMap
\* new KeyMap(commandID, sequence)
KeyMap(commandID, sequence) == [commandID |-> commandID, sequence |-> sequence]

\* ------------------------------------------------------------- TrieNode
\* A trie is a function from the path of a node (the keys on the edges from
\* the root) to the node; a node is its value and the keys of its children
\* Map in insertion order. A reference to a node is the record of its path.
NewTrieNode == [value |-> Undefined, keys |-> <<>>]

NodeAt(path) == [path |-> path]

\* TrieNode.child(key): the child, or Undefined
child(t, node, key) ==
    IF key \in Range(t[node.path].keys) THEN NodeAt(Append(node.path, key)) ELSE Undefined

\* addChild without `this.value = null`
addChild_KeepValue(t, node, key) ==
    LET childPath == Append(node.path, key)
        withChild == IF childPath \in DOMAIN t THEN t ELSE t @@ (childPath :> NewTrieNode)
    IN  [withChild EXCEPT ![node.path].keys =
            IF key \in Range(@) THEN @ ELSE Append(@, key)]

\* TrieNode.addChild(key, child), where child is the node already at that
\* key or a new TrieNode.
addChild(t, node, key) ==
    LET childPath == Append(node.path, key)
        withChild == IF childPath \in DOMAIN t THEN t ELSE t @@ (childPath :> NewTrieNode)
    IN  [withChild EXCEPT ![node.path] =
            [value |-> Null,
             keys |-> IF key \in Range(@.keys) THEN @.keys ELSE Append(@.keys, key)]]

isLeaf(t, node) == Len(t[node.path].keys) = 0

RECURSIVE leaves(_, _)
RECURSIVE leavesOfChildren(_, _, _)
\* the forEach loop of TrieNode.leaves over the children from the i-th on
leavesOfChildren(t, node, i) ==
    IF i > Len(t[node.path].keys) THEN <<>>
    ELSE leaves(t, NodeAt(Append(node.path, t[node.path].keys[i])))
             \o leavesOfChildren(t, node, i + 1)

leaves(t, node) ==
    IF isLeaf(t, node) THEN <<node>> ELSE leavesOfChildren(t, node, 1)

leafValues(t, node) ==
    LET ls == leaves(t, node) IN [i \in 1..Len(ls) |-> t[ls[i].path].value]

setValue(t, node, value) == [t EXCEPT ![node.path].value = value]

\* ----------------------------------------------------------------- Trie
root == NodeAt(<<>>)

NewTrie == (<<>> :> NewTrieNode)

RECURSIVE addWalk(_, _, _, _)
\* the for loop of Trie.add from the i-th component on
addWalk(t, lastSeenNode, sequence, i) ==
    IF i > Len(sequence) THEN [trie |-> t, lastSeenNode |-> lastSeenNode]
    ELSE LET key == serialize(sequence[i])
         IN  addWalk(addChild(t, lastSeenNode, key),
                     NodeAt(Append(lastSeenNode.path, key)), sequence, i + 1)

\* Trie.add that overwrites the value of the last node instead of throwing
TrieAdd_Overwrite(t, composite) ==
    LET w == addWalk(t, root, composite.sequence, 1)
    IN  [trie |-> setValue(w.trie, w.lastSeenNode, composite), threw |-> FALSE]

\* Trie.add testing the value of the last node for truthiness
TrieAdd_TruthyCheck(t, composite) ==
    LET w == addWalk(t, root, composite.sequence, 1)
        value == w.trie[w.lastSeenNode.path].value
    IN  IF value # Undefined /\ value # Null
        THEN [trie |-> w.trie, threw |-> TRUE]
        ELSE [trie |-> setValue(w.trie, w.lastSeenNode, composite), threw |-> FALSE]

\* Trie.add(composite): the trie afterwards and whether 'Duplicate keymap'
\* was thrown.
TrieAdd(t, composite) ==
    LET w == addWalk(t, root, composite.sequence, 1)
    IN  IF w.trie[w.lastSeenNode.path].value # Undefined
        THEN [trie |-> w.trie, threw |-> TRUE]
        ELSE [trie |-> setValue(w.trie, w.lastSeenNode, composite), threw |-> FALSE]

RECURSIVE bestMatchFrom(_, _, _, _)
\* the for loop of Trie.bestMatch from the i-th key press on
bestMatchFrom(t, lastNode, sequence, i) ==
    IF i > Len(sequence) THEN lastNode
    ELSE LET c == child(t, lastNode, serialize(sequence[i]))
         IN  IF c = Undefined THEN Null
             ELSE bestMatchFrom(t, c, sequence, i + 1)

RECURSIVE longestPrefixFrom(_, _, _, _)
longestPrefixFrom(t, lastNode, sequence, i) ==
    IF i > Len(sequence) THEN lastNode
    ELSE LET c == child(t, lastNode, serialize(sequence[i]))
         IN  IF c = Undefined THEN lastNode
             ELSE longestPrefixFrom(t, c, sequence, i + 1)

\* bestMatch returning the deepest node reached when an edge is missing
bestMatch_LongestPrefix(t, sequence) == longestPrefixFrom(t, root, sequence, 1)

\* Trie.bestMatch(sequence): the node reached, or Null
bestMatch(t, sequence) == bestMatchFrom(t, root, sequence, 1)

\* ----------------------------------------------------------- KeyMatcher
\* MatchClassification
NoMatchClass == "NoMatch"
PartialMatchClass == "PartialMatch"
FullMatchClass == "FullMatch"

\* KeyMatchingState
NoMatch == "NoMatch"
StartedMatch == "StartedMatch"
RetainedMatch == "RetainedMatch"
ImprovedMatch == "ImprovedMatch"
SuccessMatch == "SuccessMatch"
InvalidMatch == "InvalidMatch"

\* new KeyMatcher(trie); the trie is the variable trie
NewKeyMatcher ==
    [currentState |-> NoMatch, currentSequence |-> <<>>, currentMatches |-> <<>>]

\* reset that leaves the buffer in place
reset_KeepSequence(m) ==
    [m EXCEPT !.currentState = NoMatch, !.currentMatches = <<>>]

\* KeyMatcher.reset()
reset(m) ==
    [m EXCEPT !.currentState = NoMatch, !.currentSequence = <<>>, !.currentMatches = <<>>]

\* classify without the isLeaf test
classify_PartialOnly(t, node) ==
    IF node = Null THEN NoMatchClass ELSE PartialMatchClass

\* KeyMatcher.classify(bestMatch)
classify(t, node) ==
    IF node = Null THEN NoMatchClass
    ELSE IF isLeaf(t, node) THEN FullMatchClass
    ELSE PartialMatchClass

\* "Start Matching" that leaves the unmatched key press in the buffer
startMatching_KeepBuffer(m, matchClassification) ==
    IF matchClassification = NoMatchClass
    THEN [m EXCEPT !.currentState = NoMatch, !.currentMatches = <<>>]
    ELSE IF matchClassification = FullMatchClass
    THEN [m EXCEPT !.currentState = SuccessMatch]
    ELSE [m EXCEPT !.currentState = StartedMatch]

\* KeyMatcher.advance, case NoMatch of the switch ("Start Matching"); m is
\* the matcher after the push and the lookup.
startMatching(m, matchClassification) ==
    IF matchClassification = NoMatchClass
    THEN reset(m)
    ELSE IF matchClassification = FullMatchClass
    THEN [m EXCEPT !.currentState = SuccessMatch]
    ELSE [m EXCEPT !.currentState = StartedMatch]

\* "Continue / Finish Matching" clearing the buffer on InvalidMatch
continueMatching_ResetOnInvalid(m, keypress, matchClassification) ==
    IF classification(keypress) = NoKey
    THEN [m EXCEPT !.currentSequence = SubSeq(@, 1, Len(@) - 1),
                   !.currentState = RetainedMatch]
    ELSE IF matchClassification = NoMatchClass
    THEN [m EXCEPT !.currentSequence = <<>>, !.currentState = InvalidMatch]
    ELSE IF matchClassification = FullMatchClass
    THEN [m EXCEPT !.currentState = SuccessMatch]
    ELSE [m EXCEPT !.currentState = ImprovedMatch]

\* "Continue / Finish Matching" without the pop of a modifier-only key press
continueMatching_KeepModifier(m, keypress, matchClassification) ==
    IF classification(keypress) = NoKey
    THEN [m EXCEPT !.currentState = RetainedMatch]
    ELSE IF matchClassification = NoMatchClass
    THEN [m EXCEPT !.currentState = InvalidMatch]
    ELSE IF matchClassification = FullMatchClass
    THEN [m EXCEPT !.currentState = SuccessMatch]
    ELSE [m EXCEPT !.currentState = ImprovedMatch]

\* "Continue / Finish Matching" that looks up a modifier-only key press like
\* any other
continueMatching_NoModifierCase(m, keypress, matchClassification) ==
    IF matchClassification = NoMatchClass
    THEN [m EXCEPT !.currentState = InvalidMatch]
    ELSE IF matchClassification = FullMatchClass
    THEN [m EXCEPT !.currentState = SuccessMatch]
    ELSE [m EXCEPT !.currentState = ImprovedMatch]

\* KeyMatcher.advance, cases StartedMatch, RetainedMatch and ImprovedMatch of
\* the switch ("Continue / Finish Matching")
continueMatching(m, keypress, matchClassification) ==
    IF classification(keypress) = NoKey
    THEN [m EXCEPT !.currentSequence = SubSeq(@, 1, Len(@) - 1),
                   !.currentState = RetainedMatch]
    ELSE IF matchClassification = NoMatchClass
    THEN [m EXCEPT !.currentState = InvalidMatch]
    ELSE IF matchClassification = FullMatchClass
    THEN [m EXCEPT !.currentState = SuccessMatch]
    ELSE [m EXCEPT !.currentState = ImprovedMatch]

RECURSIVE advance(_, _, _)
\* KeyMatcher.advance(keypress): the matcher afterwards; the state returned
\* is its currentState.
advance(m, t, keypress) ==
    LET pushed == Append(m.currentSequence, keypress)
        node == bestMatch(t, pushed)
        matchClassification == classify(t, node)
        matches == IF node # Null THEN leafValues(t, node) ELSE <<>>
        m1 == [m EXCEPT !.currentSequence = pushed, !.currentMatches = matches]
    IN  CASE m.currentState = NoMatch ->
                 startMatching(m1, matchClassification)
          [] m.currentState \in {StartedMatch, RetainedMatch, ImprovedMatch} ->
                 continueMatching(m1, keypress, matchClassification)
          [] m.currentState \in {SuccessMatch, InvalidMatch} ->
                 advance(reset(m1), t, keypress)

RECURSIVE advanceDepth(_, _)
\* The number of activations of KeyMatcher.advance that one call makes: the
\* cases SuccessMatch and InvalidMatch call advance again after reset().
advanceDepth(m, keypress) ==
    LET m1 == [m EXCEPT !.currentSequence = Append(@, keypress)]
    IN  IF m.currentState \in {SuccessMatch, InvalidMatch}
        THEN 1 + advanceDepth(reset(m1), keypress)
        ELSE 1

\* KeyMatcher.allMatches()
allMatches(m) == m.currentMatches

\* fullMatch without the test of the state
fullMatch_AnyState(m) ==
    IF Len(allMatches(m)) = 1 THEN m.currentMatches[1] ELSE Null

\* KeyMatcher.fullMatch()
fullMatch(m) ==
    LET numMatches == Len(allMatches(m))
        isFullMatch == m.currentState = SuccessMatch
    IN  IF isFullMatch /\ numMatches # 1 THEN Null
        ELSE IF isFullMatch /\ numMatches = 1 THEN m.currentMatches[1]
        ELSE Null

\* ------------------------------------------------------------ the inputs
\* keydown events: Ctrl+b, h, Enter and Shift pressed alone
EvCtrlB == [key |-> "b", shiftKey |-> FALSE, altKey |-> FALSE, ctrlKey |-> TRUE, metaKey |-> FALSE]
EvH == [key |-> "h", shiftKey |-> FALSE, altKey |-> FALSE, ctrlKey |-> FALSE, metaKey |-> FALSE]
EvEnter == [key |-> "Enter", shiftKey |-> FALSE, altKey |-> FALSE, ctrlKey |-> FALSE, metaKey |-> FALSE]
EvShift == [key |-> "Shift", shiftKey |-> TRUE, altKey |-> FALSE, ctrlKey |-> FALSE, metaKey |-> FALSE]

Events == {EvCtrlB, EvH, EvEnter, EvShift}

\* the key maps handed to Trie.add
KeyMaps ==
    { KeyMap("editor:focus-left", <<KeyPressCtrl("b"), KeyPressJust("h")>>),
      KeyMap("editor:focus-bottom", <<KeyPressCtrl("b"), KeyPressJust("Enter")>>),
      KeyMap("command-palette:open", <<KeyPressCtrl("b"), KeyPressJust("h"), KeyPressJust("Enter")>>),
      KeyMap("editor:focus-right", <<KeyPressCtrl("b"), KeyPressJust("h")>>),
      KeyMap("leader", <<KeyPressCtrl("b")>>),
      KeyMap("app:go-back", <<KeyPressShift("Shift"), KeyPressJust("h")>>),
      KeyMap("app:go-forward", <<KeyPressCtrl("b"), KeyPressShift("Shift")>>) }

\* ------------------------------------------------------------ the plugin
\* LeaderHotkeysPlugin.invoke(keymap): the command ids handed to
\* executeCommandById
invoke(keymap) == IF keymap # Null /\ keymap # Undefined THEN <<keymap.commandID>> ELSE <<>>

\* the switch of handleKeyDown letting the event of an InvalidMatch pass
preventsDefault_InvalidPasses(currentState) ==
    currentState \notin {NoMatch, InvalidMatch}

\* the switch of handleKeyDown: whether event.preventDefault() is called
preventsDefault(currentState) ==
    CASE currentState = NoMatch -> FALSE
      [] currentState = InvalidMatch -> TRUE
      [] currentState = StartedMatch -> TRUE
      [] currentState = RetainedMatch -> TRUE
      [] currentState = ImprovedMatch -> TRUE
      [] currentState = SuccessMatch -> TRUE

\* the switch of handleKeyDown dispatching whenever one binding is left
dispatch_OnSingleMatch(m) ==
    IF Len(allMatches(m)) = 1 THEN invoke(m.currentMatches[1]) ELSE <<>>

\* the switch of handleKeyDown: the command ids handed to executeCommandById
dispatch(m) ==
    IF m.currentState = SuccessMatch THEN invoke(fullMatch(m)) ELSE <<>>

\* no modal is open
NoModal ==
    /\ register = Undefined
    /\ pressed = <<>>
    /\ contentEl = <<>>
    /\ modalPrevented = FALSE
    /\ newKeys = <<>>
    /\ closed = FALSE

\* no StateMachine of an earlier version is in use
NoStateMachine == stateMachine = Undefined

\* onload is not followed
NoOnload ==
    /\ loadError = Undefined
    /\ keydownRegistered = FALSE

\* no key press is examined on its own
NoKeyPresses ==
    /\ keyPressPair = <<>>
    /\ returned = Undefined

\* the settings tab is not in use
NoSettingsTab ==
    /\ settings = Undefined
    /\ heap = <<>>
    /\ tempNewHotkey = Undefined
    /\ notices = <<>>
    /\ savedData = Undefined
    /\ clicks = 0
    /\ openModal = Undefined

Init ==
    /\ trie = NewTrie
    /\ hotkeys = <<>>
    /\ threw = FALSE
    /\ matcher = Undefined
    /\ fed = <<>>
    /\ defaultPrevented = FALSE
    /\ executed = <<>>
    /\ calls = <<>>
    /\ lookup = Undefined
    /\ NoModal
    /\ NoSettingsTab
    /\ NoKeyPresses
    /\ NoOnload
    /\ NoStateMachine

\* One this.trie.add(keymap) of the loop of _loadKeymaps.
AddKeymap(keymap) ==
    /\ matcher = Undefined
    /\ Len(hotkeys) < MaxAdds
    /\ LET r == TrieAdd(trie, keymap)
       IN  /\ trie' = r.trie
           /\ threw' = (threw \/ r.threw)
           /\ hotkeys' = IF r.threw THEN hotkeys ELSE Append(hotkeys, keymap)
    /\ UNCHANGED <<matcher, fed, defaultPrevented, executed>>
    /\ UNCHANGED outsidePlugin

\* this.matcher = new KeyMatcher(this.trie)
ConstructMatcher ==
    /\ matcher = Undefined
    /\ matcher' = NewKeyMatcher
    /\ UNCHANGED <<trie, hotkeys, threw, fed, defaultPrevented, executed>>
    /\ UNCHANGED outsidePlugin

\* LeaderHotkeysPlugin.handleKeyDown(event)
HandleKeyDown(event) ==
    /\ matcher # Undefined
    /\ Len(fed) < MaxKeys
    /\ LET keypress == fromEvent(event)
           m == advance(matcher, trie, keypress)
           currentState == m.currentState
       IN  /\ matcher' = m
           /\ fed' = Append(fed, keypress)
           /\ defaultPrevented' = preventsDefault(currentState)
           /\ executed' = dispatch(m)
    /\ UNCHANGED <<trie, hotkeys, threw>>
    /\ UNCHANGED outsidePlugin

Next ==
    \/ \E keymap \in KeyMaps : AddKeymap(keymap)
    \/ ConstructMatcher
    \/ \E event \in Events : HandleKeyDown(event)

Spec == Init /\ [][Next]_vars

\* ------------------------------------------------- a trie on its own
\* Trie.contains(sequence)
contains(t, sequence) == bestMatch(t, sequence) # Null

\* the chords of the sequences looked up
Chords == {fromEvent(event) : event \in Events}

RECURSIVE SeqsUpTo(_, _)
\* the sequences over S of length n at most
SeqsUpTo(S, n) ==
    IF n = 0 THEN {<<>>}
    ELSE LET shorter == SeqsUpTo(S, n - 1)
         IN  shorter \cup {Append(q, x) : q \in {r \in shorter : Len(r) = n - 1}, x \in S}

InitTrie ==
    /\ trie = NewTrie
    /\ calls = <<>>
    /\ lookup = Undefined
    /\ hotkeys = <<>>
    /\ threw = FALSE
    /\ matcher = Undefined
    /\ fed = <<>>
    /\ defaultPrevented = FALSE
    /\ executed = <<>>
    /\ NoModal
    /\ NoSettingsTab
    /\ NoKeyPresses
    /\ NoOnload
    /\ NoStateMachine

\* trie.add(composite), the error caught by the caller
TrieAddCall(composite) ==
    /\ Len(calls) < MaxCalls
    /\ LET r == TrieAdd(trie, composite)
       IN  /\ trie' = r.trie
           /\ calls' = Append(calls, [composite |-> composite, threw |-> r.threw])
    /\ lookup' = Undefined
    /\ UNCHANGED outsideTrie

\* a lookup that creates the nodes it misses
TrieLookupCall_Vivify(sequence) ==
    /\ lookup = Undefined
    /\ lookup' =
          LET node == bestMatch(trie, sequence)
          IN  [sequence |-> sequence,
               bestMatch |-> node,
               contains |-> contains(trie, sequence),
               isLeaf |-> IF node # Null THEN isLeaf(trie, node) ELSE Undefined,
               leafValues |-> IF node # Null THEN leafValues(trie, node) ELSE Undefined]
    /\ trie' = addWalk(trie, root, sequence, 1).trie
    /\ UNCHANGED calls
    /\ UNCHANGED outsideTrie

\* trie.bestMatch(sequence), trie.contains(sequence) and, on the node found,
\* isLeaf() and leafValues(); one lookup is made between two Trie.add calls
TrieLookupCall(sequence) ==
    /\ lookup = Undefined
    /\ lookup' =
          LET node == bestMatch(trie, sequence)
          IN  [sequence |-> sequence,
               bestMatch |-> node,
               contains |-> contains(trie, sequence),
               isLeaf |-> IF node # Null THEN isLeaf(trie, node) ELSE Undefined,
               leafValues |-> IF node # Null THEN leafValues(trie, node) ELSE Undefined]
    /\ UNCHANGED <<trie, calls>>
    /\ UNCHANGED outsideTrie

NextTrie ==
    \/ \E composite \in KeyMaps : TrieAddCall(composite)
    \/ \E sequence \in SeqsUpTo(Chords, MaxLookup) : TrieLookupCall(sequence)

SpecTrie == InitTrie /\ [][NextTrie]_vars

\* ------------------------------------------------------ RegisterMachine
\* enum KeyRegisterState
NoKeys == "NoKeys"
FirstKey == "FirstKey"
AddedKeys == "AddedKeys"
RetainedKeys == "RetainedKeys"
BacktrackedKey == "BacktrackedKey"
PendingConfirmation == "PendingConfirmation"
FinishedRegistering == "FinishedRegistering"

\* new RegisterMachine()
NewRegisterMachine == [currentState |-> NoKeys, currentSequence |-> <<>>]

\* Array.prototype.pop: drops the last element, if there is one
pop(sequence) ==
    IF sequence = <<>> THEN sequence ELSE SubSeq(sequence, 1, Len(sequence) - 1)

registerReset_KeepSequence(m) == [m EXCEPT !.currentState = NoKeys]

\* reset that clears two chords at a time
registerReset_TwoAtATime(m) ==
    IF Len(m.currentSequence) <= 2
    THEN [m EXCEPT !.currentState = NoKeys, !.currentSequence = <<>>]
    ELSE [m EXCEPT !.currentSequence = pop(pop(@))]

\* RegisterMachine.reset
registerReset(m) == [m EXCEPT !.currentState = NoKeys, !.currentSequence = <<>>]

registerFromNoKeys_KeepModifier(m, event) ==
    IF classification(event) = NoKey
    THEN [m EXCEPT !.currentState = RetainedKeys]
    ELSE IF classification(event) = SpecialKey
    THEN [m EXCEPT !.currentState = PendingConfirmation]
    ELSE [m EXCEPT !.currentState = FirstKey]

\* case KeyRegisterState.NoKeys of advance; the event is already pushed
registerFromNoKeys(m, event) ==
    IF classification(event) = NoKey
    THEN [m EXCEPT !.currentSequence = pop(@), !.currentState = RetainedKeys]
    ELSE IF classification(event) = SpecialKey
    THEN [m EXCEPT !.currentState = PendingConfirmation]
    ELSE [m EXCEPT !.currentState = FirstKey]

\* cases FirstKey, RetainedKeys, BacktrackedKey and AddedKeys of advance;
\* the event is already pushed
registerFromKeys(m, event) ==
    IF classification(event) = NoKey
    THEN [m EXCEPT !.currentSequence = pop(@), !.currentState = RetainedKeys]
    ELSE IF classification(event) = SpecialKey
    THEN [m EXCEPT !.currentState = PendingConfirmation]
    ELSE [m EXCEPT !.currentState = AddedKeys]

registerFromPending_KeepConfirmation(m, event) ==
    IF event.key = "Enter" /\ event.ctrl /\ event.alt
    THEN [m EXCEPT !.currentState = FinishedRegistering]
    ELSE IF event.key = "Enter"
    THEN [m EXCEPT !.currentState = AddedKeys]
    ELSE IF event.key = "Backspace"
    THEN [m EXCEPT !.currentSequence = pop(@), !.currentState = BacktrackedKey]
    ELSE [m EXCEPT !.currentState = PendingConfirmation]

\* PendingConfirmation whose Backspace also takes the pending chord off
registerFromPending_DiscardPending(m, event) ==
    IF event.key = "Enter" /\ event.ctrl /\ event.alt
    THEN [m EXCEPT !.currentSequence = pop(@), !.currentState = FinishedRegistering]
    ELSE IF event.key = "Enter"
    THEN [m EXCEPT !.currentState = AddedKeys]
    ELSE IF event.key = "Backspace"
    THEN [m EXCEPT !.currentSequence = pop(pop(@)), !.currentState = BacktrackedKey]
    ELSE [m EXCEPT !.currentState = PendingConfirmation]

\* case KeyRegisterState.PendingConfirmation of advance; the event is already
\* pushed, so each pop() here takes that event off again
registerFromPending(m, event) ==
    IF event.key = "Enter" /\ event.ctrl /\ event.alt
    THEN [m EXCEPT !.currentSequence = pop(@), !.currentState = FinishedRegistering]
    ELSE IF event.key = "Enter"
    THEN [m EXCEPT !.currentState = AddedKeys]
    ELSE IF event.key = "Backspace"
    THEN [m EXCEPT !.currentSequence = pop(@), !.currentState = BacktrackedKey]
    ELSE [m EXCEPT !.currentState = PendingConfirmation]

\* RegisterMachine.advance: the machine after the call; the state returned is
\* its currentState
RECURSIVE registerAdvance(_, _)
registerAdvance(m, event) ==
    LET pushed == [m EXCEPT !.currentSequence = Append(@, event)]
    IN  CASE m.currentState = NoKeys -> registerFromNoKeys(pushed, event)
          [] m.currentState \in {FirstKey, RetainedKeys, BacktrackedKey, AddedKeys} ->
                registerFromKeys(pushed, event)
          [] m.currentState = PendingConfirmation -> registerFromPending(pushed, event)
          [] m.currentState = FinishedRegistering ->
                registerAdvance(registerReset(pushed), event)

RECURSIVE registerAdvanceDepth(_, _)
\* The number of activations of RegisterMachine.advance that one call makes:
\* the case FinishedRegistering calls advance again after reset().
registerAdvanceDepth(m, event) ==
    LET pushed == [m EXCEPT !.currentSequence = Append(@, event)]
    IN  IF m.currentState = FinishedRegistering
        THEN 1 + registerAdvanceDepth(registerReset(pushed), event)
        ELSE 1

\* RegisterMachine.presses
presses(m) == m.currentSequence

\* Array.prototype.join
RECURSIVE join(_, _)
join(strings, separator) ==
    IF strings = <<>> THEN ""
    ELSE IF Len(strings) = 1 THEN strings[1]
    ELSE strings[1] \o separator \o join(Tail(strings), separator)

\* RegisterMachine.representation
representation(m) ==
    join([i \in 1..Len(presses(m)) |-> repr(presses(m)[i])], " => ")

\* -------------------------------------------------------- SetHotkeyModal
WaitingText == "Waiting for keypress"
ConfirmText ==
    "Did you mean literal \"lastKey\"?. If so, Press Enter."
        \o "If not, discard it with Backspace. If you wanted to finish, press Ctrl + Alt + Enter"
ConflictText ==
    "This sequence conflicts with other sequences [ . . . ] . Please try again."

\* SetHotkeyModal.setText: the paragraphs of contentEl afterwards
setText(text) == <<text>>

\* SetHotkeyModal.existingSettingsConflict
existingSettingsConflict(keyPresses) == <<>>

EvEscape == [key |-> "Escape", shiftKey |-> FALSE, altKey |-> FALSE, ctrlKey |-> FALSE, metaKey |-> FALSE]
EvBackspace == [key |-> "Backspace", shiftKey |-> FALSE, altKey |-> FALSE, ctrlKey |-> FALSE, metaKey |-> FALSE]
EvCtrlAltEnter == [key |-> "Enter", shiftKey |-> FALSE, altKey |-> TRUE, ctrlKey |-> TRUE, metaKey |-> FALSE]
EvShiftEnter == [key |-> "Enter", shiftKey |-> TRUE, altKey |-> FALSE, ctrlKey |-> FALSE, metaKey |-> FALSE]
EvCtrlEnter == [key |-> "Enter", shiftKey |-> FALSE, altKey |-> FALSE, ctrlKey |-> TRUE, metaKey |-> FALSE]

\* the keydown events sent to an open modal
ModalEvents ==
    {EvH, EvShift, EvEnter, EvEscape, EvBackspace, EvCtrlAltEnter, EvShiftEnter, EvCtrlEnter}

\* The modal after its constructor and onOpen.
InitModal ==
    /\ trie = NewTrie
    /\ hotkeys = <<>>
    /\ threw = FALSE
    /\ matcher = Undefined
    /\ fed = <<>>
    /\ defaultPrevented = FALSE
    /\ executed = <<>>
    /\ calls = <<>>
    /\ lookup = Undefined
    /\ register = NewRegisterMachine
    /\ pressed = <<>>
    /\ contentEl = <<"Just Testing, you know">>
    /\ modalPrevented = FALSE
    /\ newKeys = <<>>
    /\ closed = FALSE
    /\ NoSettingsTab
    /\ NoKeyPresses
    /\ NoOnload
    /\ NoStateMachine

\* SetHotkeyModal.handleKeyDown.  Every case calls event.preventDefault();
\* the FinishedRegistering case returns after setText, before setNewKey and
\* close, so newKeys and closed are never written.
ModalKeyDown(event) ==
    /\ register # Undefined
    /\ Len(pressed) < MaxPresses
    /\ LET keyPress == fromEvent(event)
           m == registerAdvance(register, keyPress)
           registerState == m.currentState
       IN  /\ register' = m
           /\ modalPrevented' = TRUE
           /\ contentEl' =
                CASE registerState = NoKeys -> setText(WaitingText)
                  [] registerState = RetainedKeys -> contentEl
                  [] registerState \in {FirstKey, BacktrackedKey, AddedKeys} ->
                        setText(representation(m))
                  [] registerState = PendingConfirmation ->
                        <<representation(m), ConfirmText>>
                  [] registerState = FinishedRegistering -> setText(ConflictText)
    /\ pressed' = Append(pressed, event)
    /\ UNCHANGED <<newKeys, closed>>
    /\ UNCHANGED outsideModal

NextModal == \E event \in ModalEvents : ModalKeyDown(event)

SpecModal == InitModal /\ [][NextModal]_vars

\* ------------------------------------------------ KeyPress on its own
\* the values of KeyboardEvent.key used: letters, a digit, the special keys,
\* the modifier keys, and an event without a key
KeyNames ==
    {"b", "h", "1", "Enter", "Escape", "Alt", "Control", "Shift", "Meta",
     NullKey, UndefinedKey}

\* every key press over KeyNames
KeyPressesOver(keys) ==
    {KeyPress(key, shift, alt, ctrl, meta) :
        key \in keys, shift \in BOOLEAN, alt \in BOOLEAN, ctrl \in BOOLEAN,
        meta \in BOOLEAN}

InitKeyPress ==
    /\ trie = NewTrie
    /\ hotkeys = <<>>
    /\ threw = FALSE
    /\ matcher = Undefined
    /\ fed = <<>>
    /\ defaultPrevented = FALSE
    /\ executed = <<>>
    /\ calls = <<>>
    /\ lookup = Undefined
    /\ NoModal
    /\ NoOnload
    /\ NoStateMachine
    /\ NoSettingsTab
    /\ keyPressPair \in KeyPressesOver(KeyNames) \X KeyPressesOver(KeyNames)
    /\ returned = Undefined

\* serialize() of both key presses
SerializeCall ==
    /\ returned' = [method |-> "serialize",
                    values |-> <<serialize(keyPressPair[1]), serialize(keyPressPair[2])>>]
    /\ UNCHANGED keyPressPair
    /\ UNCHANGED outsideKeyPress

\* classification() of both key presses
ClassificationCall ==
    /\ returned' = [method |-> "classification",
                    values |-> <<classification(keyPressPair[1]),
                                 classification(keyPressPair[2])>>]
    /\ UNCHANGED keyPressPair
    /\ UNCHANGED outsideKeyPress

NextKeyPress == SerializeCall \/ ClassificationCall

SpecKeyPress == InitKeyPress /\ [][NextKeyPress]_vars

\* ------------------------------------ the factories of KeyPress
\* Each static constructor is called on its own; returned records the call.
FactoryKeys == {"b", "h", "Enter", "Shift"}

ModifierNames == {"Ctrl", "Alt", "Shift", "Meta"}

\* the custom commands of the hotkey manager: a key and a list of modifiers
CustomCommands ==
    {[key |-> key, modifiers |-> modifiers] :
        key \in FactoryKeys, modifiers \in SeqsUpTo(ModifierNames, MaxModifiers)}

FactoryEvents ==
    {[key |-> key, shiftKey |-> shift, altKey |-> alt, ctrlKey |-> ctrl, metaKey |-> meta] :
        key \in FactoryKeys, shift \in BOOLEAN, alt \in BOOLEAN, ctrl \in BOOLEAN,
        meta \in BOOLEAN}

InitFactory ==
    /\ trie = NewTrie
    /\ hotkeys = <<>>
    /\ threw = FALSE
    /\ matcher = Undefined
    /\ fed = <<>>
    /\ defaultPrevented = FALSE
    /\ executed = <<>>
    /\ calls = <<>>
    /\ lookup = Undefined
    /\ NoModal
    /\ NoSettingsTab
    /\ NoKeyPresses
    /\ NoOnload
    /\ NoStateMachine

CtrlCall(key) ==
    /\ returned' = [method |-> "ctrl", input |-> key, value |-> KeyPressCtrl(key)]
    /\ UNCHANGED keyPressPair
    /\ UNCHANGED outsideKeyPress

AltCall(key) ==
    /\ returned' = [method |-> "alt", input |-> key, value |-> KeyPressAlt(key)]
    /\ UNCHANGED keyPressPair
    /\ UNCHANGED outsideKeyPress

ShiftCall(key) ==
    /\ returned' = [method |-> "shift", input |-> key, value |-> KeyPressShift(key)]
    /\ UNCHANGED keyPressPair
    /\ UNCHANGED outsideKeyPress

MetaCall(key) ==
    /\ returned' = [method |-> "meta", input |-> key, value |-> KeyPressMeta(key)]
    /\ UNCHANGED keyPressPair
    /\ UNCHANGED outsideKeyPress

JustCall(key) ==
    /\ returned' = [method |-> "just", input |-> key, value |-> KeyPressJust(key)]
    /\ UNCHANGED keyPressPair
    /\ UNCHANGED outsideKeyPress

CtrlAltCall(key) ==
    /\ returned' = [method |-> "ctrlAlt", input |-> key, value |-> KeyPressCtrlAlt(key)]
    /\ UNCHANGED keyPressPair
    /\ UNCHANGED outsideKeyPress

FromEventCall(event) ==
    /\ returned' = [method |-> "fromEvent", input |-> event, value |-> fromEvent(event)]
    /\ UNCHANGED keyPressPair
    /\ UNCHANGED outsideKeyPress

FromCustomCall(binding) ==
    /\ returned' = [method |-> "fromCustom", input |-> binding, value |-> fromCustom(binding)]
    /\ UNCHANGED keyPressPair
    /\ UNCHANGED outsideKeyPress

OfCall(keyPressLike) ==
    /\ returned' = [method |-> "of", input |-> keyPressLike, value |-> KeyPressOf(keyPressLike)]
    /\ UNCHANGED keyPressPair
    /\ UNCHANGED outsideKeyPress

NextFactory ==
    \/ \E key \in FactoryKeys : CtrlCall(key)
    \/ \E key \in FactoryKeys : AltCall(key)
    \/ \E key \in FactoryKeys : ShiftCall(key)
    \/ \E key \in FactoryKeys : MetaCall(key)
    \/ \E key \in FactoryKeys : JustCall(key)
    \/ \E key \in FactoryKeys : CtrlAltCall(key)
    \/ \E event \in FactoryEvents : FromEventCall(event)
    \/ \E binding \in CustomCommands : FromCustomCall(binding)
    \/ \E keyPressLike \in KeyPressesOver(FactoryKeys) : OfCall(keyPressLike)

SpecFactory == InitFactory /\ [][NextFactory]_vars

\* ------------------------------------ the plugin with a modal open
\* A keydown goes to the workspace handler of the plugin or, while the modal
\* has the focus, to the handler of the modal.
BothModalEvents == {EvH, EvEnter, EvCtrlAltEnter}

InitBoth ==
    /\ trie = NewTrie
    /\ hotkeys = <<>>
    /\ threw = FALSE
    /\ matcher = Undefined
    /\ fed = <<>>
    /\ defaultPrevented = FALSE
    /\ executed = <<>>
    /\ calls = <<>>
    /\ lookup = Undefined
    /\ register = NewRegisterMachine
    /\ pressed = <<>>
    /\ contentEl = <<"Just Testing, you know">>
    /\ modalPrevented = FALSE
    /\ newKeys = <<>>
    /\ closed = FALSE
    /\ NoSettingsTab
    /\ NoKeyPresses
    /\ NoOnload
    /\ NoStateMachine

NextBoth ==
    \/ \E keymap \in KeyMaps : Len(hotkeys) < MaxBothAdds /\ AddKeymap(keymap)
    \/ ConstructMatcher
    \/ \E event \in Events :
          Len(fed) + Len(pressed) < MaxBothKeys /\ HandleKeyDown(event)
    \/ \E event \in BothModalEvents :
          Len(fed) + Len(pressed) < MaxBothKeys /\ ModalKeyDown(event)

SpecBoth == InitBoth /\ [][NextBoth]_vars

\* ------------------------------------------------ LeaderPluginSettingsTab
\* Objects live in heap; Ref(id) is a reference to one.  plugin.settings
\* and the trie both hold references, so a write through one is seen
\* through the other.
Ref(id) == [ref |-> id]

\* A property read: a field the object lacks reads as undefined.
Get(object, field) ==
    IF field \in DOMAIN object THEN [v |-> object[field]] ELSE Undefined

\* The object as Trie.add takes it: the reference it stores and the key
\* presses its iterator yields.
Handle(h, id) == [ref |-> id, sequence |-> h[id].sequence]

defaultHotkeys ==
    << KeyMap("editor:focus-left", <<KeyPressCtrl("b"), KeyPressJust("h")>>),
       KeyMap("editor:focus-right", <<KeyPressCtrl("b"), KeyPressJust("l")>>),
       KeyMap("editor:focus-top", <<KeyPressCtrl("b"), KeyPressJust("k")>>),
       KeyMap("editor:focus-bottom", <<KeyPressCtrl("b"), KeyPressJust("j")>>),
       KeyMap("command-palette:open",
              <<KeyPressCtrl("q"), KeyPressJust("1"), KeyPressJust("2"), KeyPressJust("2")>>),
       KeyMap("command-palette:open",
              <<KeyPressCtrl(" "), KeyPressJust("p"), KeyPressJust("a"), KeyPressJust("l"),
                KeyPressJust("l"), KeyPressJust("e"), KeyPressJust("t"), KeyPressJust("t"),
                KeyPressJust("e")>>) >>

\* defaultSettings, its hotkeys being the first objects of the heap
defaultSettings == [hotkeys |-> [i \in 1..Len(defaultHotkeys) |-> Ref(i)]]

newEmptyHotkey == [key |-> "", shift |-> FALSE, meta |-> FALSE, commandID |-> ""]

\* The arrows of hotkeyToName are written by their code points.
hotkeyToName(hotkey) ==
    IF hotkey = Undefined \/ Get(hotkey, "key") = [v |-> ""] THEN "?"
    ELSE LET key == Get(hotkey, "key")
             keyToUse == IF key = Undefined THEN "undefined"
                         ELSE IF key.v = "ArrowRight" THEN "<U+2192>"
                         ELSE IF key.v = "ArrowLeft" THEN "<U+2190>"
                         ELSE IF key.v = "ArrowDown" THEN "<U+2193>"
                         ELSE IF key.v = "ArrowUp" THEN "<U+2191>"
                         ELSE key.v
         IN  (IF Get(hotkey, "meta") = [v |-> TRUE] THEN "meta+" ELSE "")
                 \o (IF Get(hotkey, "shift") = [v |-> TRUE] THEN "shift+" ELSE "")
                 \o keyToUse

\* the commands the dropdowns offer
Commands == {"editor:focus-left", "app:go-back"}

\* plugin.saveData(plugin.settings): what is written
saveData(h, list) == [hotkeys |-> [i \in 1..Len(list) |-> h[list[i].ref]]]

\* An object read from data.json: JSON.parse gives the data of the object
\* that was written, a plain object without the methods of its class.
fromJSON(data) == [json |-> data]

\* whether keymap.repr is a function: it is one on the objects made by
\* new KeyMap
hasRepr(object) == "json" \notin DOMAIN object

\* a thrown Error
Error(message) == [message |-> message]

DuplicateKeymap == Error("Duplicate keymap")

ReprIsNotAFunction == Error("TypeError: keymap.repr is not a function")

RECURSIVE loadKeymaps(_, _, _, _)
\* the for loop of _loadKeymaps from the i-th keymap on: keymap.repr() is
\* called for the message written to the console, then Trie.add; the error
\* of either ends the loop
loadKeymaps(h, t, list, i) ==
    IF i > Len(list) THEN [trie |-> t, threw |-> FALSE, error |-> Undefined]
    ELSE IF ~hasRepr(h[list[i].ref])
    THEN [trie |-> t, threw |-> FALSE, error |-> ReprIsNotAFunction]
    ELSE LET r == TrieAdd(t, Handle(h, list[i].ref))
         IN  IF r.threw
             THEN [trie |-> r.trie, threw |-> TRUE, error |-> DuplicateKeymap]
             ELSE loadKeymaps(h, r.trie, list, i + 1)

\* the comparison the loops of the settings tab make between two hotkeys
sameHotkey(hotkey, key, meta, shift) ==
    /\ Get(hotkey, "key") = key
    /\ Get(hotkey, "meta") = meta
    /\ Get(hotkey, "shift") = shift

\* validateNewHotkey that looks at the first hotkey only
validateNewHotkey_FirstOnly(h, list, i, key, meta, shift) ==
    IF list # <<>> /\ sameHotkey(h[list[1].ref], key, meta, shift)
    THEN [valid |-> FALSE,
          notice |-> <<"Leader hotkey '" \o hotkeyToName(h[list[1].ref])
                          \o "' is already in use">>]
    ELSE [valid |-> TRUE, notice |-> <<>>]

RECURSIVE validateNewHotkey(_, _, _, _, _, _)
\* validateNewHotkey from index i on: whether the key is free, and the
\* notice shown when it is not
validateNewHotkey(h, list, i, key, meta, shift) ==
    IF i > Len(list) THEN [valid |-> TRUE, notice |-> <<>>]
    ELSE IF sameHotkey(h[list[i].ref], key, meta, shift)
    THEN [valid |-> FALSE,
          notice |-> <<"Leader hotkey '" \o hotkeyToName(h[list[i].ref])
                          \o "' is already in use">>]
    ELSE validateNewHotkey(h, list, i + 1, key, meta, shift)

\* Array.prototype.splice(i, 1)
splice(list, i) == SubSeq(list, 1, i - 1) \o SubSeq(list, i + 1, Len(list))

RECURSIVE deleteLoop(_, _, _, _)
\* the for loop of deleteHotkeyFromSettings from index i on: the index moves
\* on after a splice as well
deleteLoop(h, list, i, existingHotkey) ==
    IF i > Len(list) THEN list
    ELSE IF ~sameHotkey(h[list[i].ref], Get(existingHotkey, "key"),
                        Get(existingHotkey, "meta"), Get(existingHotkey, "shift"))
    THEN deleteLoop(h, list, i + 1, existingHotkey)
    ELSE deleteLoop(h, splice(list, i), i + 1, existingHotkey)

RECURSIVE updateCommandLoop(_, _, _, _, _)
\* the for loop of updateHotkeyCommandInSettings from index i on: the heap
\* after it
updateCommandLoop(h, list, i, existingHotkey, newCommand) ==
    IF i > Len(list) THEN h
    ELSE IF ~sameHotkey(h[list[i].ref], Get(existingHotkey, "key"),
                        Get(existingHotkey, "meta"), Get(existingHotkey, "shift"))
    THEN updateCommandLoop(h, list, i + 1, existingHotkey, newCommand)
    ELSE [h EXCEPT ![list[i].ref].commandID = newCommand]

\* The plugin before onload; the objects of defaultHotkeys exist since the
\* module was evaluated.
InitSettings ==
    /\ trie = NewTrie
    /\ hotkeys = <<>>
    /\ threw = FALSE
    /\ matcher = Undefined
    /\ fed = <<>>
    /\ defaultPrevented = FALSE
    /\ executed = <<>>
    /\ calls = <<>>
    /\ lookup = Undefined
    /\ NoModal
    /\ settings = Undefined
    /\ heap = defaultHotkeys
    /\ tempNewHotkey = Undefined
    /\ notices = <<>>
    /\ savedData = Undefined
    /\ clicks = 0
    /\ openModal = Undefined
    /\ NoKeyPresses
    /\ NoOnload
    /\ NoStateMachine

\* _loadKeymaps on a first run: loadData() resolves to nothing, so the
\* default settings are used.  An error of Trie.add leaves the matcher
\* unconstructed.
LoadKeymaps ==
    /\ settings = Undefined
    /\ LET r == loadKeymaps(heap, NewTrie, defaultSettings.hotkeys, 1)
       IN  /\ trie' = r.trie
           /\ threw' = r.threw
           /\ matcher' = IF r.threw THEN matcher ELSE NewKeyMatcher
    /\ settings' = defaultSettings
    /\ UNCHANGED <<heap, tempNewHotkey, notices, savedData, clicks, openModal>>
    /\ UNCHANGED outsideSettings

\* The delete button of the row of configuredCommand:
\* deleteHotkeyFromSettings, then display().
DeleteClick(configuredCommand) ==
    /\ settings # Undefined
    /\ configuredCommand \in Range(settings.hotkeys)
    /\ clicks < MaxClicks
    /\ LET list == deleteLoop(heap, settings.hotkeys, 1, heap[configuredCommand.ref])
       IN  /\ settings' = [settings EXCEPT !.hotkeys = list]
           /\ savedData' = saveData(heap, list)
    /\ clicks' = clicks + 1
    /\ UNCHANGED <<heap, tempNewHotkey, notices>>
    /\ UNCHANGED <<trie, threw, matcher, openModal>>
    /\ UNCHANGED outsideSettings

\* The command dropdown of the row of configuredCommand:
\* updateHotkeyCommandInSettings.
CommandChange(configuredCommand, newCommand) ==
    /\ settings # Undefined
    /\ configuredCommand \in Range(settings.hotkeys)
    /\ clicks < MaxClicks
    /\ heap' = updateCommandLoop(heap, settings.hotkeys, 1,
                                 heap[configuredCommand.ref], newCommand)
    /\ savedData' = saveData(heap', settings.hotkeys)
    /\ clicks' = clicks + 1
    /\ UNCHANGED <<settings, tempNewHotkey, notices>>
    /\ UNCHANGED <<trie, threw, matcher, openModal>>
    /\ UNCHANGED outsideSettings

\* The command dropdown of "Create New Hotkey".
NewCommandChange(newCommand) ==
    /\ settings # Undefined
    /\ clicks < MaxClicks
    /\ IF tempNewHotkey = Undefined
       THEN /\ heap' = Append(heap, [newEmptyHotkey EXCEPT !.commandID = newCommand])
            /\ tempNewHotkey' = Ref(Len(heap) + 1)
       ELSE /\ heap' = [heap EXCEPT ![tempNewHotkey.ref].commandID = newCommand]
            /\ UNCHANGED tempNewHotkey
    /\ clicks' = clicks + 1
    /\ UNCHANGED <<settings, notices, savedData>>
    /\ UNCHANGED <<trie, threw, matcher, openModal>>
    /\ UNCHANGED outsideSettings

\* The "Save New Hotkey" button: validateNewHotkey, then
\* storeNewHotkeyInSettings and display().  With tempNewHotkey undefined the
\* read of its key throws and the handler ends there.
SaveNewHotkeyClick ==
    /\ settings # Undefined
    /\ clicks < MaxClicks
    /\ IF tempNewHotkey = Undefined
       THEN UNCHANGED <<settings, heap, tempNewHotkey, notices, savedData>>
       ELSE LET temp == heap[tempNewHotkey.ref]
                isValid == validateNewHotkey(heap, settings.hotkeys, 1, Get(temp, "key"),
                                             Get(temp, "meta"), Get(temp, "shift"))
            IN  IF isValid.valid
                THEN /\ settings' =
                          [settings EXCEPT !.hotkeys = Append(@, tempNewHotkey)]
                     /\ savedData' = saveData(heap, settings'.hotkeys)
                     /\ heap' = Append(heap, newEmptyHotkey)
                     /\ tempNewHotkey' = Ref(Len(heap) + 1)
                     /\ UNCHANGED notices
                ELSE /\ notices' = notices \o isValid.notice
                     /\ UNCHANGED <<settings, heap, tempNewHotkey, savedData>>
    /\ clicks' = clicks + 1
    /\ UNCHANGED <<trie, threw, matcher, openModal>>
    /\ UNCHANGED outsideSettings

\* the objects a row of the tab can show
Rows == {Ref(i) : i \in 1..(Len(defaultHotkeys) + MaxClicks)}

\* updateHotkeyInSettings is reached only through the modal's setNewKey,
\* which handleKeyDown returns before calling: it is no step of the tab.
NextSettings ==
    \/ LoadKeymaps
    \/ \E row \in Rows : DeleteClick(row)
    \/ \E row \in Rows, newCommand \in Commands : CommandChange(row, newCommand)
    \/ \E newCommand \in Commands : NewCommandChange(newCommand)
    \/ SaveNewHotkeyClick

SpecSettings == InitSettings /\ [][NextSettings]_vars

\* ------------------------------- the settings tab of src/src/main.ts
\* The first version of the plugin: a hotkey is one key with the meta and
\* shift flags.  validateNewHotkey, deleteHotkeyFromSettings,
\* updateHotkeyCommandInSettings, storeNewHotkeyInSettings, newEmptyHotkey and
\* hotkeyToName have there the text they have in the later version, so the
\* operators above stand for them.
Hotkey(key, meta, shift, commandID) ==
    [key |-> key, meta |-> meta, shift |-> shift, commandID |-> commandID]

defaultHotkeysMain ==
    << Hotkey("h", FALSE, FALSE, "editor:focus-left"),
       Hotkey("j", FALSE, FALSE, "editor:focus-bottom"),
       Hotkey("k", FALSE, FALSE, "editor:focus-top"),
       Hotkey("l", FALSE, FALSE, "editor:focus-right") >>

defaultSettingsMain == [hotkeys |-> [i \in 1..Len(defaultHotkeysMain) |-> Ref(i)]]

RECURSIVE updateHotkeyLoop(_, _, _, _, _, _, _)
\* the for loop of updateHotkeyInSettings from index i on: the heap after it
updateHotkeyLoop(h, list, i, existingHotkey, newKey, meta, shift) ==
    IF i > Len(list) THEN h
    ELSE IF ~sameHotkey(h[list[i].ref], Get(existingHotkey, "key"),
                        Get(existingHotkey, "meta"), Get(existingHotkey, "shift"))
    THEN updateHotkeyLoop(h, list, i + 1, existingHotkey, newKey, meta, shift)
    ELSE [h EXCEPT ![list[i].ref].key = newKey,
                   ![list[i].ref].meta = meta,
                   ![list[i].ref].shift = shift]

\* the keydown events sent to the modal of main.ts
EvX == [key |-> "x", shiftKey |-> FALSE, altKey |-> FALSE, ctrlKey |-> FALSE, metaKey |-> FALSE]
EvShiftX == [key |-> "x", shiftKey |-> TRUE, altKey |-> FALSE, ctrlKey |-> FALSE, metaKey |-> FALSE]

MainEvents == {EvH, EvX, EvShiftX, EvShift, EvEscape}

\* The plugin of main.ts after onload on a first run, its settings tab shown.
InitMain ==
    /\ trie = NewTrie
    /\ hotkeys = <<>>
    /\ threw = FALSE
    /\ matcher = Undefined
    /\ fed = <<>>
    /\ defaultPrevented = FALSE
    /\ executed = <<>>
    /\ calls = <<>>
    /\ lookup = Undefined
    /\ NoModal
    /\ NoKeyPresses
    /\ NoOnload
    /\ NoStateMachine
    /\ settings = defaultSettingsMain
    /\ heap = defaultHotkeysMain
    /\ tempNewHotkey = Undefined
    /\ notices = <<>>
    /\ savedData = Undefined
    /\ clicks = 0
    /\ openModal = Undefined

\* The delete button of a row: deleteHotkeyFromSettings, then display().
MainDeleteClick(configuredCommand) ==
    /\ openModal = Undefined
    /\ configuredCommand \in Range(settings.hotkeys)
    /\ clicks < MaxClicks
    /\ LET list == deleteLoop(heap, settings.hotkeys, 1, heap[configuredCommand.ref])
       IN  /\ settings' = [settings EXCEPT !.hotkeys = list]
           /\ savedData' = saveData(heap, list)
    /\ clicks' = clicks + 1
    /\ UNCHANGED <<heap, tempNewHotkey, notices, openModal>>
    /\ UNCHANGED outsideMain

\* The command dropdown of a row: updateHotkeyCommandInSettings.
MainCommandChange(configuredCommand, newCommand) ==
    /\ openModal = Undefined
    /\ configuredCommand \in Range(settings.hotkeys)
    /\ clicks < MaxClicks
    /\ heap' = updateCommandLoop(heap, settings.hotkeys, 1,
                                 heap[configuredCommand.ref], newCommand)
    /\ savedData' = saveData(heap', settings.hotkeys)
    /\ clicks' = clicks + 1
    /\ UNCHANGED <<settings, tempNewHotkey, notices, openModal>>
    /\ UNCHANGED outsideMain

\* A click on the key of a row: a SetHotkeyModal is opened whose setNewKey
\* validates and updates that row.
MainRowKeyClick(configuredCommand) ==
    /\ openModal = Undefined
    /\ configuredCommand \in Range(settings.hotkeys)
    /\ clicks < MaxClicks
    /\ openModal' = [kind |-> "row", configuredCommand |-> configuredCommand]
    /\ clicks' = clicks + 1
    /\ UNCHANGED <<settings, heap, tempNewHotkey, notices, savedData>>
    /\ UNCHANGED outsideMain

\* A click on the key of "Create New Hotkey": a SetHotkeyModal is opened
\* whose setNewKey writes tempNewHotkey.
MainNewKeyClick ==
    /\ openModal = Undefined
    /\ clicks < MaxClicks
    /\ openModal' = [kind |-> "new"]
    /\ clicks' = clicks + 1
    /\ UNCHANGED <<settings, heap, tempNewHotkey, notices, savedData>>
    /\ UNCHANGED outsideMain

\* SetHotkeyModal.handleKeyDown of main.ts: Shift, Meta and Escape are let
\* pass; any other key goes to setNewKey and the modal closes.
MainModalKeyDown(event) ==
    /\ openModal # Undefined
    /\ clicks < MaxClicks
    /\ clicks' = clicks + 1
    /\ IF event.key \in {"Shift", "Meta", "Escape"}
       THEN UNCHANGED <<settings, heap, tempNewHotkey, notices, savedData, openModal>>
       ELSE /\ openModal' = Undefined
            /\ UNCHANGED settings
            /\ IF openModal.kind = "row"
               THEN LET isValid ==
                            validateNewHotkey(heap, settings.hotkeys, 1, [v |-> event.key],
                                              [v |-> event.metaKey], [v |-> event.shiftKey])
                    IN  IF isValid.valid
                        THEN /\ heap' = updateHotkeyLoop(heap, settings.hotkeys, 1,
                                                         heap[openModal.configuredCommand.ref],
                                                         event.key, event.metaKey,
                                                         event.shiftKey)
                             /\ savedData' = saveData(heap', settings.hotkeys)
                             /\ UNCHANGED <<tempNewHotkey, notices>>
                        ELSE /\ notices' = notices \o isValid.notice
                             /\ UNCHANGED <<heap, tempNewHotkey, savedData>>
               ELSE /\ IF tempNewHotkey = Undefined
                       THEN /\ heap' = Append(heap, [newEmptyHotkey EXCEPT
                                                        !.key = event.key,
                                                        !.meta = event.metaKey,
                                                        !.shift = event.shiftKey])
                            /\ tempNewHotkey' = Ref(Len(heap) + 1)
                       ELSE /\ heap' = [heap EXCEPT ![tempNewHotkey.ref].key = event.key,
                                                    ![tempNewHotkey.ref].meta = event.metaKey,
                                                    ![tempNewHotkey.ref].shift = event.shiftKey]
                            /\ UNCHANGED tempNewHotkey
                    /\ UNCHANGED <<notices, savedData>>
    /\ UNCHANGED outsideMain

\* The modal is dismissed without a key: onClose.
MainModalClose ==
    /\ openModal # Undefined
    /\ clicks < MaxClicks
    /\ openModal' = Undefined
    /\ clicks' = clicks + 1
    /\ UNCHANGED <<settings, heap, tempNewHotkey, notices, savedData>>
    /\ UNCHANGED outsideMain

\* The command dropdown of "Create New Hotkey".
MainNewCommandChange(newCommand) ==
    /\ openModal = Undefined
    /\ clicks < MaxClicks
    /\ IF tempNewHotkey = Undefined
       THEN /\ heap' = Append(heap, [newEmptyHotkey EXCEPT !.commandID = newCommand])
            /\ tempNewHotkey' = Ref(Len(heap) + 1)
       ELSE /\ heap' = [heap EXCEPT ![tempNewHotkey.ref].commandID = newCommand]
            /\ UNCHANGED tempNewHotkey
    /\ clicks' = clicks + 1
    /\ UNCHANGED <<settings, notices, savedData, openModal>>
    /\ UNCHANGED outsideMain

\* The "Save New Hotkey" button: validateNewHotkey, then
\* storeNewHotkeyInSettings and display().  With tempNewHotkey undefined the
\* read of its key throws and the handler ends there.
MainSaveNewHotkeyClick ==
    /\ openModal = Undefined
    /\ clicks < MaxClicks
    /\ IF tempNewHotkey = Undefined
       THEN UNCHANGED <<settings, heap, tempNewHotkey, notices, savedData>>
       ELSE LET temp == heap[tempNewHotkey.ref]
                isValid == validateNewHotkey(heap, settings.hotkeys, 1, Get(temp, "key"),
                                             Get(temp, "meta"), Get(temp, "shift"))
            IN  IF isValid.valid
                THEN /\ settings' =
                          [settings EXCEPT !.hotkeys = Append(@, tempNewHotkey)]
                     /\ savedData' = saveData(heap, settings'.hotkeys)
                     /\ heap' = Append(heap, newEmptyHotkey)
                     /\ tempNewHotkey' = Ref(Len(heap) + 1)
                     /\ UNCHANGED notices
                ELSE /\ notices' = notices \o isValid.notice
                     /\ UNCHANGED <<settings, heap, tempNewHotkey, savedData>>
    /\ clicks' = clicks + 1
    /\ UNCHANGED openModal
    /\ UNCHANGED outsideMain

\* the objects a row of the tab of main.ts can show
MainRows == {Ref(i) : i \in 1..(Len(defaultHotkeysMain) + MaxClicks)}

NextMain ==
    \/ \E row \in MainRows : MainDeleteClick(row)
    \/ \E row \in MainRows, newCommand \in Commands : MainCommandChange(row, newCommand)
    \/ \E row \in MainRows : MainRowKeyClick(row)
    \/ MainNewKeyClick
    \/ \E event \in MainEvents : MainModalKeyDown(event)
    \/ MainModalClose
    \/ \E newCommand \in Commands : MainNewCommandChange(newCommand)
    \/ MainSaveNewHotkeyClick

SpecMain == InitMain /\ [][NextMain]_vars

\* ------------------------- the settings tab of main.ts over saved settings
\* the hotkeys a persisted list is made of
SavedHotkeys ==
    {Hotkey("h", FALSE, FALSE, "editor:focus-left"), Hotkey("x", FALSE, FALSE, "app:go-back")}

\* what loadData() gives: nothing on a first run, or the settings object of
\* data.json, whose list is taken as it is
SavedSettingsMain ==
    {Undefined} \cup {[hotkeys |-> list] : list \in SeqsUpTo(SavedHotkeys, MaxSaved)}

\* The plugin of main.ts after onload, its settings tab shown: this.settings =
\* savedSettings || defaultSettings.
InitMainSaved ==
    /\ trie = NewTrie
    /\ hotkeys = <<>>
    /\ threw = FALSE
    /\ matcher = Undefined
    /\ fed = <<>>
    /\ defaultPrevented = FALSE
    /\ executed = <<>>
    /\ calls = <<>>
    /\ lookup = Undefined
    /\ NoModal
    /\ NoKeyPresses
    /\ NoOnload
    /\ NoStateMachine
    /\ \E savedSettings \in SavedSettingsMain :
           IF savedSettings = Undefined
           THEN settings = defaultSettingsMain /\ heap = defaultHotkeysMain
           ELSE /\ heap = savedSettings.hotkeys
                /\ settings = [hotkeys |-> [i \in 1..Len(savedSettings.hotkeys) |-> Ref(i)]]
    /\ tempNewHotkey = Undefined
    /\ notices = <<>>
    /\ savedData = Undefined
    /\ clicks = 0
    /\ openModal = Undefined

SpecMainSaved == InitMainSaved /\ [][NextMain]_vars

\* =================================================================
\* Properties
\* =================================================================
Matching == {StartedMatch, RetainedMatch, ImprovedMatch}

IsPrefix(a, b) == Len(a) <= Len(b) /\ SubSeq(b, 1, Len(a)) = a

\* the path the trie indexes a chord sequence by
PathOf(sequence) == [i \in 1..Len(sequence) |-> serialize(sequence[i])]

HasPath(sequence) == PathOf(sequence) \in DOMAIN trie

EndsAtLeaf(sequence) == HasPath(sequence) /\ trie[PathOf(sequence)].keys = <<>>

IsBinding(v) == v # Null /\ v # Undefined

\* the bindings the nodes of the trie carry
StoredBindings == {v \in {trie[p].value : p \in DOMAIN trie} : IsBinding(v)}

\* the bindings carried by the leaves at or below a path
ReachableFrom(path) ==
    {trie[p].value : p \in {q \in DOMAIN trie : IsPrefix(path, q) /\ trie[q].keys = <<>>}}

Keyed(b) == \A i \in 1..Len(b.sequence) : classification(b.sequence[i]) # NoKey

\* no key map handed to Trie.add has the chord sequence of another as a prefix
PrefixFree(hs) ==
    \A i, j \in 1..Len(hs) : i # j => ~IsPrefix(hs[i].sequence, hs[j].sequence)

\* every Trie.add succeeded, on a prefix-free set of key maps of Normal and
\* Special chords
WellBuilt ==
    /\ ~threw
    /\ PrefixFree(hotkeys)
    /\ \A i \in 1..Len(hotkeys) : Keyed(hotkeys[i])

\* C1: over a trie built by successful Trie.add calls from a prefix-free set
\* of bindings of Normal/Special chords, feeding the chords of a stored
\* binding B to a fresh KeyMatcher returns StartedMatch or ImprovedMatch on
\* every proper prefix of B and SuccessMatch on the last chord, and
\* fullMatch() is then B.
C1_StoredBindingMatches ==
    (matcher # Undefined /\ WellBuilt) =>
        \A i \in 1..Len(hotkeys) :
            LET B == hotkeys[i]
            IN  (fed # <<>> /\ IsPrefix(fed, B.sequence)) =>
                    IF fed = B.sequence
                    THEN /\ matcher.currentState = SuccessMatch
                         /\ fullMatch(matcher) = B
                    ELSE matcher.currentState \in {StartedMatch, ImprovedMatch}

\* a three-chord binding, stored next to another one, has been typed in full
C1_Witness ==
    /\ matcher # Undefined
    /\ WellBuilt
    /\ Len(hotkeys) = 2
    /\ \E i \in 1..Len(hotkeys) : Len(hotkeys[i].sequence) = 3 /\ fed = hotkeys[i].sequence
    /\ matcher.currentState = SuccessMatch

\* C2: from StartedMatch, RetainedMatch or ImprovedMatch, advance(c) with a
\* chord c that is no BareModifier keeps c appended to the buffer and returns
\* InvalidMatch when the buffer has no path in the trie, SuccessMatch when the
\* path ends at a leaf and ImprovedMatch when it ends at an internal node.
C2_ContinueWithKey ==
    [][\A event \in Events :
          (/\ HandleKeyDown(event)
           /\ matcher.currentState \in Matching
           /\ classification(fromEvent(event)) # NoKey) =>
              LET buffer == Append(matcher.currentSequence, fromEvent(event))
              IN  /\ matcher'.currentSequence = buffer
                  /\ matcher'.currentState =
                        IF ~HasPath(buffer) THEN InvalidMatch
                        ELSE IF EndsAtLeaf(buffer) THEN SuccessMatch
                        ELSE ImprovedMatch]_vars

\* a second chord without a path was kept in the buffer on InvalidMatch
C2_Witness ==
    /\ matcher # Undefined
    /\ Len(fed) = 2
    /\ matcher.currentState = InvalidMatch
    /\ matcher.currentSequence = fed
    /\ ~HasPath(fed)

\* C3: from StartedMatch, RetainedMatch or ImprovedMatch, advance(c) with a
\* BareModifier chord c returns RetainedMatch and leaves the buffer as it was
\* before the call, whatever the trie contains.
C3_ModifierRetained ==
    [][\A event \in Events :
          (/\ HandleKeyDown(event)
           /\ matcher.currentState \in Matching
           /\ classification(fromEvent(event)) = NoKey) =>
              /\ matcher'.currentState = RetainedMatch
              /\ matcher'.currentSequence = matcher.currentSequence]_vars

\* a Shift pressed alone was dropped although the trie has an edge for it
C3_Witness ==
    /\ matcher # Undefined
    /\ Len(fed) = 2
    /\ classification(fed[2]) = NoKey
    /\ EndsAtLeaf(fed)
    /\ matcher.currentState = RetainedMatch
    /\ matcher.currentSequence = <<fed[1]>>

\* the chords of a chord sequence that are no BareModifier
KeysOf(sequence) == SelectSeq(sequence, LAMBDA k : classification(k) # NoKey)

\* C4: the chords of a stored binding B of Normal/Special chords, with any
\* number of BareModifier chords inserted between consecutive chords, fed to a
\* fresh KeyMatcher end in SuccessMatch on the last chord of B with
\* fullMatch() = B.
C4_ModifierNoise ==
    matcher # Undefined =>
        \A B \in StoredBindings :
            (/\ Keyed(B)
             /\ fed # <<>>
             /\ classification(fed[1]) # NoKey
             /\ classification(fed[Len(fed)]) # NoKey
             /\ KeysOf(fed) = B.sequence) =>
                /\ matcher.currentState = SuccessMatch
                /\ fullMatch(matcher) = B

\* a binding was typed with two modifier-only chords between its chords
C4_Witness ==
    /\ matcher # Undefined
    /\ Len(fed) = 4
    /\ classification(fed[2]) = NoKey
    /\ classification(fed[3]) = NoKey
    /\ \E B \in StoredBindings : Keyed(B) /\ KeysOf(fed) = B.sequence /\ fullMatch(matcher) = B
    /\ matcher.currentState = SuccessMatch

\* C5: from NoMatch, advance(c) returns NoMatch with the buffer reset to empty
\* when [c] has no path in the trie, SuccessMatch when [c] ends at a leaf and
\* StartedMatch when it ends at an internal node, the buffer being [c] in the
\* last two cases; for every chord c, BareModifier chords included.
C5_StartFromNoMatch ==
    [][\A event \in Events :
          (HandleKeyDown(event) /\ matcher.currentState = NoMatch) =>
              LET c == fromEvent(event)
              IN  IF ~HasPath(<<c>>)
                  THEN matcher'.currentState = NoMatch /\ matcher'.currentSequence = <<>>
                  ELSE /\ matcher'.currentSequence = <<c>>
                       /\ matcher'.currentState =
                             IF EndsAtLeaf(<<c>>) THEN SuccessMatch ELSE StartedMatch]_vars

\* a Shift pressed alone started a match from NoMatch, after a chord that
\* matched nothing
C5_Witness ==
    /\ matcher # Undefined
    /\ Len(fed) = 2
    /\ ~HasPath(<<fed[1]>>)
    /\ classification(fed[2]) = NoKey
    /\ matcher.currentState = StartedMatch
    /\ matcher.currentSequence = <<fed[2]>>

\* C6: in SuccessMatch or InvalidMatch, advance(c) returns the same state and
\* leaves the same buffer, allMatches() and fullMatch() as advance(c) on a
\* freshly constructed KeyMatcher over the same trie.
C6_ReEntrancy ==
    [][\A event \in Events :
          (/\ HandleKeyDown(event)
           /\ matcher.currentState \in {SuccessMatch, InvalidMatch}) =>
              LET fresh == advance(NewKeyMatcher, trie, fromEvent(event))
              IN  /\ matcher'.currentState = fresh.currentState
                  /\ matcher'.currentSequence = fresh.currentSequence
                  /\ allMatches(matcher') = allMatches(fresh)
                  /\ fullMatch(matcher') = fullMatch(fresh)]_vars

\* the chord after an InvalidMatch started a new match with a buffer of its own
C6_Witness ==
    /\ matcher # Undefined
    /\ Len(fed) = 3
    /\ ~HasPath(SubSeq(fed, 1, 2))
    /\ HasPath(<<fed[1]>>)
    /\ classification(fed[2]) # NoKey
    /\ matcher.currentState = StartedMatch
    /\ matcher.currentSequence = <<fed[3]>>

\* C7: after any sequence of advance calls, fullMatch() returns a binding if
\* and only if the state is SuccessMatch; allMatches() then has exactly that
\* one element and the chord sequence of the binding is the buffer.
C7_FullMatchIffSuccess ==
    matcher # Undefined =>
        /\ IsBinding(fullMatch(matcher)) <=> matcher.currentState = SuccessMatch
        /\ matcher.currentState = SuccessMatch =>
              /\ allMatches(matcher) = <<fullMatch(matcher)>>
              /\ fullMatch(matcher).sequence = matcher.currentSequence

\* one binding is left in StartedMatch, fullMatch() returning none, over a
\* trie that saw a failing Trie.add
C7_Witness ==
    /\ matcher # Undefined
    /\ threw
    /\ matcher.currentState = StartedMatch
    /\ Len(allMatches(matcher)) = 1
    /\ fullMatch(matcher) = Null

\* C8: after every advance call that leaves chords in the buffer, allMatches()
\* is the set of bindings reachable from the buffer: the bindings of the
\* leaves under the node the buffer leads to, none when the buffer has no
\* path; also after a BareModifier chord was dropped in RetainedMatch.
C8_AllMatchesReachable ==
    (matcher # Undefined /\ matcher.currentSequence # <<>>) =>
        Range(allMatches(matcher)) =
            IF HasPath(matcher.currentSequence)
            THEN ReachableFrom(PathOf(matcher.currentSequence))
            ELSE {}

\* C9: for a keydown event, executeCommandById is called exactly once when
\* advance returned SuccessMatch, with the commandID of the stored binding
\* whose chord sequence is the buffer, and not at all otherwise.
C9_DispatchOnSuccess ==
    (matcher # Undefined /\ fed # <<>>) =>
        IF matcher.currentState = SuccessMatch
        THEN \E B \in StoredBindings :
                /\ B.sequence = matcher.currentSequence
                /\ executed = <<B.commandID>>
        ELSE executed = <<>>

\* a binding typed in full was dispatched, the other binding under the same
\* leader was not
C9_Witness ==
    /\ matcher # Undefined
    /\ Cardinality(StoredBindings) = 2
    /\ Len(fed) = 2
    /\ matcher.currentState = SuccessMatch
    /\ executed = <<"editor:focus-bottom">>

\* C10: for a keydown event, preventDefault is called if and only if the state
\* advance returned is not NoMatch, the chord that leads to InvalidMatch
\* included.
C10_SuppressUnlessNoMatch ==
    (matcher # Undefined /\ fed # <<>>) =>
        (defaultPrevented <=> matcher.currentState # NoMatch)

\* the event of the chord that led to InvalidMatch was suppressed
C10_Witness ==
    /\ matcher # Undefined
    /\ fed # <<>>
    /\ matcher.currentState = InvalidMatch
    /\ defaultPrevented

\* C30: after every advance call the state is NoMatch if and only if the
\* buffer is empty, and in NoMatch allMatches() is empty; in SuccessMatch and
\* InvalidMatch the buffer stays non-empty until the next advance call.
C30_NoMatchIffEmptyBuffer ==
    matcher # Undefined =>
        /\ matcher.currentState = NoMatch <=> matcher.currentSequence = <<>>
        /\ matcher.currentState = NoMatch => allMatches(matcher) = <<>>
        /\ matcher.currentState \in {SuccessMatch, InvalidMatch} =>
              Len(matcher.currentSequence) >= 1

\* a key press that matched nothing after a started match: InvalidMatch with
\* the rejected key presses still in the buffer
C30_Witness ==
    /\ matcher # Undefined
    /\ matcher.currentState = InvalidMatch
    /\ Len(matcher.currentSequence) >= 2
    /\ matcher.currentSequence = fed

\* ------------------------------------------------------ Trie (SpecTrie)
IsProperPrefix(a, b) == IsPrefix(a, b) /\ Len(a) < Len(b)

LastCall == calls[Len(calls)]

\* the children of every node
Children(t) == [p \in DOMAIN t |-> t[p].keys]

\* C11: Trie.add of a binding with the chord sequence of a stored binding
\* throws, and leaves the structure of the trie and the stored binding, its
\* commandID included, unchanged.
C11_DuplicateRejected ==
    [][\A composite \in KeyMaps :
          (/\ TrieAddCall(composite)
           /\ \E B \in StoredBindings : B.sequence = composite.sequence) =>
              /\ LastCall'.threw
              /\ trie' = trie]_vars

\* the last Trie.add threw on the chord sequence of a binding stored under
\* another commandID
C11_Witness ==
    /\ calls # <<>>
    /\ LastCall.threw
    /\ \E B \in StoredBindings :
          /\ B.sequence = LastCall.composite.sequence
          /\ B.commandID # LastCall.composite.commandID

\* C12: Trie.add of a binding whose chord sequence properly extends that of a
\* stored binding fails with an error, and the shorter binding is still among
\* the leaf bindings reachable from the root.
C12_ExtensionRejected ==
    [][\A composite \in KeyMaps :
          TrieAddCall(composite) =>
              \A B \in StoredBindings :
                  IsProperPrefix(B.sequence, composite.sequence) =>
                      /\ LastCall'.threw
                      /\ B \in ReachableFrom(<<>>)']_vars

\* C13: Trie.add of a non-empty binding whose chord sequence is a proper
\* prefix of that of a stored binding throws and leaves the children of every
\* node and the leaf bindings reachable from the root unchanged.
C13_PrefixRejected ==
    [][\A composite \in KeyMaps :
          (/\ TrieAddCall(composite)
           /\ composite.sequence # <<>>
           /\ \E B \in StoredBindings : IsProperPrefix(composite.sequence, B.sequence)) =>
              /\ LastCall'.threw
              /\ Children(trie') = Children(trie)
              /\ ReachableFrom(<<>>)' = ReachableFrom(<<>>)]_vars

\* the last Trie.add threw on a proper prefix of a stored binding
C13_Witness ==
    /\ calls # <<>>
    /\ LastCall.threw
    /\ \E B \in StoredBindings : IsProperPrefix(LastCall.composite.sequence, B.sequence)

\* C14: after any sequence of Trie.add calls on non-empty bindings, no node
\* with children carries a binding and every node without children other
\* than the root carries one binding, whose chord sequence is the path from
\* the root to the node.
C14_ValuesAtLeavesOnly ==
    \A p \in DOMAIN trie :
        /\ trie[p].keys # <<>> => ~IsBinding(trie[p].value)
        /\ (trie[p].keys = <<>> /\ p # <<>>) =>
              /\ IsBinding(trie[p].value)
              /\ PathOf(trie[p].value.sequence) = p

\* a Trie.add threw and another one turned the leaf of a binding into an
\* internal node
C14_Witness ==
    /\ \E i \in 1..Len(calls) : calls[i].threw
    /\ \E i \in 1..Len(calls) :
          /\ ~calls[i].threw
          /\ trie[PathOf(calls[i].composite.sequence)].keys # <<>>

\* a path of edges leads from the root along the strings of path
HasEdges(path) ==
    \A i \in 1..Len(path) :
        /\ SubSeq(path, 1, i - 1) \in DOMAIN trie
        /\ path[i] \in Range(trie[SubSeq(path, 1, i - 1)].keys)

\* C15: Trie.bestMatch(buffer) returns none if and only if some prefix of the
\* buffer has no path of edges, labelled by the serialize() strings of the
\* chords, from the root, and the node reached after the whole buffer
\* otherwise.
C15_StrictPrefixWalk ==
    lookup # Undefined =>
        LET path == PathOf(lookup.sequence)
        IN  IF \E n \in 0..Len(path) : ~HasEdges(SubSeq(path, 1, n))
            THEN lookup.bestMatch = Null
            ELSE lookup.bestMatch = NodeAt(path)

\* a lookup of three chords returned none although its first chord has an edge
C15_Witness ==
    /\ lookup # Undefined
    /\ Len(lookup.sequence) = 3
    /\ HasEdges(PathOf(SubSeq(lookup.sequence, 1, 1)))
    /\ ~HasEdges(PathOf(SubSeq(lookup.sequence, 1, 2)))
    /\ lookup.bestMatch = Null

IsBareModifier(c) ==
    c.key \in {NullKey, UndefinedKey, "Alt", "Control", "Shift", "Meta"}

IsSpecial(c) == c.key \in {"Enter", "Escape"}

CollectingStates == {NoKeys, FirstKey, RetainedKeys, BacktrackedKey, AddedKeys}

\* C18: from NoKeys, FirstKey, RetainedKeys, BacktrackedKey or AddedKeys,
\* advance(c) of a bare-modifier chord returns RetainedKeys and leaves the
\* buffer unchanged; a special chord (Enter or Escape, any modifiers) is
\* appended and returns PendingConfirmation; any other chord is appended and
\* returns FirstKey from NoKeys and AddedKeys otherwise.
C18_CollectingKeys ==
    [][\A event \in ModalEvents :
          (ModalKeyDown(event) /\ register.currentState \in CollectingStates) =>
              LET c == fromEvent(event)
              IN  IF IsBareModifier(c)
                  THEN /\ register'.currentState = RetainedKeys
                       /\ presses(register') = presses(register)
                  ELSE IF IsSpecial(c)
                  THEN /\ register'.currentState = PendingConfirmation
                       /\ presses(register') = Append(presses(register), c)
                  ELSE /\ register'.currentState =
                            IF register.currentState = NoKeys THEN FirstKey ELSE AddedKeys
                       /\ presses(register') = Append(presses(register), c)]_vars

\* a first key, a bare modifier, a second key and Shift+Enter were pressed
\* in turn: the modifier left no trace and the special chord is pending
C18_Witness ==
    /\ pressed = <<EvH, EvShift, EvH, EvShiftEnter>>
    /\ register.currentState = PendingConfirmation
    /\ presses(register) =
          <<KeyPressJust("h"), KeyPressJust("h"), KeyPressShift("Enter")>>

\* C19: from PendingConfirmation, advance of an Enter chord with ctrl and alt
\* both set returns FinishedRegistering and presses() is the buffer as it was
\* before the call.
C19_ConfirmationExcluded ==
    [][\A event \in ModalEvents :
          (/\ ModalKeyDown(event)
           /\ register.currentState = PendingConfirmation
           /\ event.key = "Enter" /\ event.ctrlKey /\ event.altKey) =>
              /\ register'.currentState = FinishedRegistering
              /\ presses(register') = presses(register)]_vars

\* h, Escape, then Ctrl+Alt+Enter: finished with the two chords recorded
C19_Witness ==
    /\ pressed = <<EvH, EvEscape, EvCtrlAltEnter>>
    /\ register.currentState = FinishedRegistering
    /\ presses(register) = <<KeyPressJust("h"), KeyPressJust("Escape")>>

\* C20: from PendingConfirmation, advance of a Backspace chord returns
\* BacktrackedKey, does not record the Backspace, and removes the pending
\* special chord: presses() afterwards is the buffer before the call minus
\* its last element.
C20_BackspaceDiscardsPending ==
    [][\A event \in ModalEvents :
          (/\ ModalKeyDown(event)
           /\ register.currentState = PendingConfirmation
           /\ event.key = "Backspace") =>
              /\ register'.currentState = BacktrackedKey
              /\ presses(register') = pop(presses(register))]_vars

\* C21: from PendingConfirmation, only a plain Enter chord (no modifier
\* flag set) moves to AddedKeys, appended as a literal chord; every chord
\* other than plain Enter, Ctrl+Alt+Enter and Backspace, Enter with other
\* modifiers included, leaves the state PendingConfirmation.
IsPlainEnter(c) == c.key = "Enter" /\ ~c.shift /\ ~c.alt /\ ~c.ctrl /\ ~c.meta

IsCtrlAltEnter(c) == c.key = "Enter" /\ c.ctrl /\ c.alt

C21_OnlyPlainEnterIsLiteral ==
    [][\A event \in ModalEvents :
          (ModalKeyDown(event) /\ register.currentState = PendingConfirmation) =>
              LET c == fromEvent(event)
              IN  /\ IsPlainEnter(c) =>
                        /\ register'.currentState = AddedKeys
                        /\ presses(register') = Append(presses(register), c)
                  /\ (~IsPlainEnter(c) /\ ~IsCtrlAltEnter(c) /\ c.key # "Backspace") =>
                        register'.currentState = PendingConfirmation]_vars

\* C22: advance(c) on a machine in FinishedRegistering returns the state and
\* leaves the presses() that advance(c) gives on a freshly constructed
\* machine; nothing of the finished sequence remains.
C22_RegisterReEntrancy ==
    [][\A event \in ModalEvents :
          (ModalKeyDown(event) /\ register.currentState = FinishedRegistering) =>
              LET fresh == registerAdvance(NewRegisterMachine, fromEvent(event))
              IN  /\ register'.currentState = fresh.currentState
                  /\ presses(register') = presses(fresh)
                  /\ Len(presses(register')) <= 1]_vars

\* a sequence was finished and the next key started a new one
C22_Witness ==
    /\ pressed = <<EvH, EvEnter, EvCtrlAltEnter, EvH>>
    /\ register.currentState = FirstKey
    /\ presses(register) = <<KeyPressJust("h")>>

\* C23: after every advance call, in every state, presses() contains no
\* bare-modifier chord.
C23_NoBareModifierRecorded ==
    register # Undefined =>
        \A i \in 1..Len(presses(register)) : ~IsBareModifier(presses(register)[i])

\* C24: when a keydown drives the machine to FinishedRegistering and the
\* captured sequence conflicts with no registered binding, setNewKey is called
\* exactly once and the modal closes; when it conflicts, setNewKey is not
\* called.
C24_FinishedHandsOver ==
    [][\A event \in ModalEvents :
          (ModalKeyDown(event) /\ register'.currentState = FinishedRegistering) =>
              IF existingSettingsConflict(presses(register')) = <<>>
              THEN Len(newKeys') = Len(newKeys) + 1 /\ closed'
              ELSE newKeys' = newKeys]_vars

\* ------------------------------------------- both machines (SpecBoth)
\* C25: every call of KeyMatcher.advance and of RegisterMachine.advance
\* returns after at most one nested self-call (recursion depth at most 2).
C25_RecursionDepthAtMostTwo ==
    /\ matcher # Undefined =>
          \A event \in Events : advanceDepth(matcher, fromEvent(event)) <= 2
    /\ register # Undefined =>
          \A event \in ModalEvents :
              registerAdvanceDepth(register, fromEvent(event)) <= 2

\* both machines have made a nested call: the matcher was fed Ctrl+b again
\* after the full match of <Ctrl+b>, and the register was sent h after a
\* finished sequence
C25_Witness ==
    /\ matcher # Undefined
    /\ fed = <<KeyPressCtrl("b"), KeyPressCtrl("b")>>
    /\ matcher.currentState = SuccessMatch
    /\ executed = <<"leader">>
    /\ pressed = <<EvEnter, EvCtrlAltEnter, EvH>>
    /\ register.currentState = FirstKey

\* ------------------------------------------- KeyPress (SpecKeyPress)
\* a key press whose key is the name of a key
HasKeyName(c) == c.key \notin {NullKey, UndefinedKey}

RECURSIVE Canonical(_)
\* the canonical string as the specification words it: one marker for each
\* active modifier, in the order meta, ctrl, alt, shift, then the key
Canonical(c) ==
    IF c.meta THEN "<U+2318> + " \o Canonical([c EXCEPT !.meta = FALSE])
    ELSE IF c.ctrl THEN "Ctrl + " \o Canonical([c EXCEPT !.ctrl = FALSE])
    ELSE IF c.alt THEN "Alt + " \o Canonical([c EXCEPT !.alt = FALSE])
    ELSE IF c.shift THEN "<U+21E7> + " \o Canonical([c EXCEPT !.shift = FALSE])
    ELSE c.key

\* C26: serialize is injective over chords whose keys are key names free of
\* the modifier markers: chords that differ in key, shift, alt, ctrl or meta
\* have different strings, and the markers come in the order meta, ctrl,
\* alt, shift before the key.
C26_SerializeInjective ==
    (/\ returned # Undefined
     /\ returned.method = "serialize"
     /\ HasKeyName(keyPressPair[1])
     /\ HasKeyName(keyPressPair[2])) =>
        /\ keyPressPair[1] # keyPressPair[2] => returned.values[1] # returned.values[2]
        /\ \A i \in 1..2 : returned.values[i] = Canonical(keyPressPair[i])

\* two chords of the same key, one with every modifier and one without shift
C26_Witness ==
    /\ returned # Undefined
    /\ returned.method = "serialize"
    /\ keyPressPair = <<KeyPress("b", TRUE, TRUE, TRUE, TRUE), KeyPress("b", FALSE, TRUE, TRUE, TRUE)>>
    /\ returned.values = <<"<U+2318> + Ctrl + Alt + <U+21E7> + b", "<U+2318> + Ctrl + Alt + b">>

\* the class of a key as the specification words it
ClassOfKey(key) ==
    IF key \in {NullKey, UndefinedKey, "Alt", "Control", "Shift", "Meta"} THEN "NoKey"
    ELSE IF key \in {"Enter", "Escape"} THEN "SpecialKey"
    ELSE "NormalKey"

\* C27: classification returns NoKey exactly for the keys null, undefined,
\* Alt, Control, Shift and Meta, SpecialKey exactly for Enter and Escape, and
\* NormalKey otherwise, whatever the shift, alt, ctrl and meta flags.
C27_ClassificationByKey ==
    (returned # Undefined /\ returned.method = "classification") =>
        /\ \A i \in 1..2 : returned.values[i] = ClassOfKey(keyPressPair[i].key)
        /\ keyPressPair[1].key = keyPressPair[2].key =>
              returned.values[1] = returned.values[2]

\* Escape with every modifier and Escape alone are both special
C27_Witness ==
    /\ returned # Undefined
    /\ returned.method = "classification"
    /\ keyPressPair = <<KeyPress("Escape", TRUE, TRUE, TRUE, TRUE), KeyPressJust("Escape")>>
    /\ returned.values = <<SpecialKey, SpecialKey>>

\* ------------------------------------------ settings tab (SpecSettings)
\* the bindings the live matcher matches against: the values at the leaves
\* of its trie, read through the heap
MatcherBindings ==
    {heap[v.ref] : v \in {w \in Range(leafValues(trie, root)) : "ref" \in DOMAIN w}}

\* the bindings of plugin.settings.hotkeys
SettingsBindings == {heap[r.ref] : r \in Range(settings.hotkeys)}

\* C17: after any add, delete or update made through the settings tab, the
\* bindings the live KeyMatcher matches against are the bindings of
\* plugin.settings.hotkeys.
C17_TrieFollowsSettings ==
    (matcher # Undefined /\ settings # Undefined) =>
        MatcherBindings = SettingsBindings

\* ------------------------------ settings tab of main.ts (SpecMain)
\* the hotkeys of plugin.settings.hotkeys, in order
ListContents == [i \in 1..Len(settings.hotkeys) |-> heap[settings.hotkeys[i].ref]]

\* no two entries of the list share (key, meta, shift)
NoTwoAlike ==
    \A i, j \in 1..Len(ListContents) :
        i < j =>
            ~(/\ ListContents[i].key = ListContents[j].key
              /\ ListContents[i].meta = ListContents[j].meta
              /\ ListContents[i].shift = ListContents[j].shift)

\* an entry of the list has this (key, meta, shift)
Collides(key, meta, shift) ==
    \E i \in 1..Len(ListContents) :
        /\ ListContents[i].key = key
        /\ ListContents[i].meta = meta
        /\ ListContents[i].shift = shift

\* C28: from a list in which no two entries share (key, meta, shift), every
\* sequence of the guarded operations (Save New Hotkey, key update through
\* the modal, command update, delete) keeps the list so; an add or a key
\* update that collides with an entry is rejected and leaves the list as it
\* was.
C28_NoDuplicateKeys ==
    [][/\ NoTwoAlike'
       /\ (/\ MainSaveNewHotkeyClick
           /\ tempNewHotkey # Undefined
           /\ Collides(heap[tempNewHotkey.ref].key, heap[tempNewHotkey.ref].meta,
                       heap[tempNewHotkey.ref].shift)) =>
              ListContents' = ListContents
       /\ \A event \in MainEvents :
              (/\ MainModalKeyDown(event)
               /\ openModal.kind = "row"
               /\ event.key \notin {"Shift", "Meta", "Escape"}
               /\ Collides(event.key, event.metaKey, event.shiftKey)) =>
                  ListContents' = ListContents]_vars

\* the new hotkey was given the key h, which the first default has, and
\* Save was refused
C28_Witness ==
    /\ tempNewHotkey # Undefined
    /\ heap[tempNewHotkey.ref].key = "h"
    /\ notices = <<"Leader hotkey 'h' is already in use">>
    /\ ListContents = defaultHotkeysMain

\* C29: no sequence of operations of the tab stores a hotkey whose key is the
\* empty string: every entry of settings.hotkeys has a non-empty key.
C29_NoEmptyKeyStored ==
    settings # Undefined =>
        \A i \in 1..Len(ListContents) : Get(ListContents[i], "key") # [v |-> ""]

\* ---------------------------------------------------------------------------
\* KeyMatcher after an InvalidMatch, and bindings holding modifier-only chords
\* (Spec)
\* ---------------------------------------------------------------------------

\* C31: the chord that drove the KeyMatcher into InvalidMatch is discarded:
\* the next chord d is matched against the buffer [d] alone, a SuccessMatch it
\* gives is the binding [d], and the binding made of the discarded chord
\* followed by d is not matched (leader, leader, key does not reach the binding
\* leader, key).
C31_InvalidChordDiscarded ==
    [][\A event \in Events :
          (HandleKeyDown(event) /\ matcher.currentState = InvalidMatch) =>
              LET d == fromEvent(event)
                  c == fed[Len(fed)]
              IN  /\ matcher'.currentSequence = IF HasPath(<<d>>) THEN <<d>> ELSE <<>>
                  /\ matcher'.currentState = SuccessMatch =>
                         fullMatch(matcher').sequence = <<d>>
                  /\ \A B \in StoredBindings :
                         B.sequence = <<c, d>> => fullMatch(matcher') # B]_vars

\* leader, leader, key was typed over the binding leader, key and the matcher
\* is back in NoMatch with nothing executed
C31_Witness ==
    /\ matcher # Undefined
    /\ fed = <<KeyPressCtrl("b"), KeyPressCtrl("b"), KeyPressJust("h")>>
    /\ \E B \in StoredBindings : B.sequence = <<KeyPressCtrl("b"), KeyPressJust("h")>>
    /\ matcher.currentState = NoMatch
    /\ matcher.currentSequence = <<>>
    /\ executed = <<>>

\* C32: no chord sequence reaches SuccessMatch with fullMatch() a binding that
\* has a modifier-only chord at a position after the first.
C32_ModifierBindingUnreachable ==
    (matcher # Undefined /\ matcher.currentState = SuccessMatch) =>
        LET B == fullMatch(matcher)
        IN  \A i \in 2..Len(B.sequence) : classification(B.sequence[i]) # NoKey

\* the chords of the stored binding Ctrl+b, Shift were typed and the matcher
\* only retained the match
C32_Witness ==
    /\ matcher # Undefined
    /\ fed = <<KeyPressCtrl("b"), KeyPressShift("Shift")>>
    /\ \E B \in StoredBindings : B.sequence = fed
    /\ matcher.currentState = RetainedMatch
    /\ matcher.currentSequence = <<KeyPressCtrl("b")>>

\* ---------------------------------------------------------------------------
\* RegisterMachine: what a finished registration holds (SpecModal)
\* ---------------------------------------------------------------------------

C34_FactoryFlags ==
    returned # Undefined =>
        LET input == returned.input
            value == returned.value
            Flags(shift, alt, ctrl, meta) ==
                /\ value.shift = shift
                /\ value.alt = alt
                /\ value.ctrl = ctrl
                /\ value.meta = meta
        IN  /\ returned.method = "ctrl" => value.key = input /\ Flags(FALSE, FALSE, TRUE, FALSE)
            /\ returned.method = "alt" => value.key = input /\ Flags(FALSE, TRUE, FALSE, FALSE)
            /\ returned.method = "shift" => value.key = input /\ Flags(TRUE, FALSE, FALSE, FALSE)
            /\ returned.method = "meta" => value.key = input /\ Flags(FALSE, FALSE, FALSE, TRUE)
            /\ returned.method = "just" => value.key = input /\ Flags(FALSE, FALSE, FALSE, FALSE)
            /\ returned.method = "ctrlAlt" => value.key = input /\ Flags(FALSE, TRUE, TRUE, FALSE)
            /\ returned.method = "fromEvent" =>
                   /\ value.key = input.key
                   /\ Flags(input.shiftKey, input.altKey, input.ctrlKey, input.metaKey)
            /\ returned.method = "of" =>
                   value.key = input.key /\ Flags(input.shift, input.alt, input.ctrl, input.meta)
            /\ returned.method = "fromCustom" =>
                   /\ value.key = input.key
                   /\ Flags(modifiersContains(input.modifiers, "Shift"),
                            modifiersContains(input.modifiers, "Alt"),
                            modifiersContains(input.modifiers, "Ctrl"),
                            modifiersContains(input.modifiers, "Meta"))

\* the same with fromCustom left out: what the other eight factories do
FactoryFlagsButFromCustom ==
    (returned # Undefined /\ returned.method # "fromCustom") => C34_FactoryFlags

\* ------------------ settings tab of main.ts over saved settings (SpecMainSaved)
\* two hotkeys with the same (key, meta, shift)
Alike(a, b) == a.key = b.key /\ a.meta = b.meta /\ a.shift = b.shift

\* C35: deleteHotkeyFromSettings(h) removes every entry of settings.hotkeys
\* whose (key, meta, shift) equals h's, for every list, lists holding several
\* such entries next to each other included, and leaves all other entries
\* present and in their original order.
C35_DeleteRemovesEveryMatch ==
    [][\A row \in MainRows :
          MainDeleteClick(row) =>
              ListContents' = SelectSeq(ListContents, LAMBDA e : ~Alike(e, heap[row.ref]))]_vars

\* what the loop does leave: the entries unlike h stay, in their order
DeleteKeepsTheOthers ==
    [][\A row \in MainRows :
          MainDeleteClick(row) =>
              SelectSeq(ListContents', LAMBDA e : ~Alike(e, heap[row.ref]))
                  = SelectSeq(ListContents, LAMBDA e : ~Alike(e, heap[row.ref]))]_vars

\* =================================================================
\* The plugin from its onload
\* =================================================================
\* the key maps a persisted list is made of, as data.json holds them
SavedKeyMaps ==
    {fromJSON(KeyMap("editor:focus-left", <<KeyPressCtrl("b"), KeyPressJust("h")>>)),
     fromJSON(KeyMap("app:go-back", <<KeyPressCtrl("b"), KeyPressJust("h")>>)),
     fromJSON(KeyMap("leader", <<KeyPressCtrl("b")>>))}

\* what loadData() gives: nothing on a first run, or the settings object of
\* data.json
SavedSettings ==
    {Undefined} \cup {[hotkeys |-> list] : list \in SeqsUpTo(SavedKeyMaps, MaxSavedKeymaps)}

\* the keydown events that type the chords of the default key maps
DefaultEvents ==
    {[key |-> c.key, shiftKey |-> c.shift, altKey |-> c.alt, ctrlKey |-> c.ctrl,
      metaKey |-> c.meta] :
        c \in UNION {Range(defaultHotkeys[i].sequence) : i \in 1..Len(defaultHotkeys)}}

\* the user types the chords of one default key map and then of another
TypesDefaults(sequence) ==
    \E i, j \in 1..Len(defaultHotkeys) :
        IsPrefix(sequence, defaultHotkeys[i].sequence \o defaultHotkeys[j].sequence)

\* The plugin before onload; the objects of defaultHotkeys exist since the
\* module was evaluated.
InitOnload ==
    /\ trie = NewTrie
    /\ hotkeys = <<>>
    /\ threw = FALSE
    /\ matcher = Undefined
    /\ fed = <<>>
    /\ defaultPrevented = FALSE
    /\ executed = <<>>
    /\ calls = <<>>
    /\ lookup = Undefined
    /\ NoModal
    /\ NoKeyPresses
    /\ NoOnload
    /\ NoStateMachine
    /\ settings = Undefined
    /\ heap = defaultHotkeys
    /\ tempNewHotkey = Undefined
    /\ notices = <<>>
    /\ savedData = Undefined
    /\ clicks = 0
    /\ openModal = Undefined

\* onload: _loadKeymaps, then _registerWorkspaceEvents and the rest, which an
\* error of _loadKeymaps keeps from running.  this.settings is assigned
\* before the loop; this.matcher after it.
Onload(savedSettings) ==
    /\ settings = Undefined
    /\ LET h == IF savedSettings = Undefined THEN heap ELSE heap \o savedSettings.hotkeys
           list == IF savedSettings = Undefined THEN defaultSettings.hotkeys
                   ELSE [i \in 1..Len(savedSettings.hotkeys) |-> Ref(Len(heap) + i)]
           r == loadKeymaps(h, NewTrie, list, 1)
       IN  /\ heap' = h
           /\ settings' = [hotkeys |-> list]
           /\ trie' = r.trie
           /\ threw' = r.threw
           /\ matcher' = IF r.error = Undefined THEN NewKeyMatcher ELSE matcher
           /\ loadError' = r.error
           /\ keydownRegistered' = (r.error = Undefined)
    /\ UNCHANGED <<fed, defaultPrevented, executed>>
    /\ UNCHANGED outsideOnload

\* A keydown on the workspace once the handler is registered: handleKeyDown.
WorkspaceKeyDown(event) ==
    /\ keydownRegistered
    /\ Len(fed) < MaxTyped
    /\ TypesDefaults(Append(fed, fromEvent(event)))
    /\ LET keypress == fromEvent(event)
           m == advance(matcher, trie, keypress)
           keymap == fullMatch(m)
       IN  /\ matcher' = m
           /\ fed' = Append(fed, keypress)
           /\ defaultPrevented' = preventsDefault(m.currentState)
           /\ executed' = IF m.currentState = SuccessMatch /\ IsBinding(keymap)
                          THEN <<heap[keymap.ref].commandID>>
                          ELSE <<>>
    /\ UNCHANGED <<trie, threw, settings, heap, loadError, keydownRegistered>>
    /\ UNCHANGED outsideOnload

\* A keydown on the workspace after an onload that ended with an error: no
\* handler of the plugin is registered, the event goes its way.
UnhandledKeyDown(event) ==
    /\ loadError # Undefined
    /\ ~keydownRegistered
    /\ Len(fed) < MaxTyped
    /\ TypesDefaults(Append(fed, fromEvent(event)))
    /\ fed' = Append(fed, fromEvent(event))
    /\ UNCHANGED <<trie, threw, matcher, defaultPrevented, executed, settings, heap,
                   loadError, keydownRegistered>>
    /\ UNCHANGED outsideOnload

NextOnload ==
    \/ \E savedSettings \in SavedSettings : Onload(savedSettings)
    \/ \E event \in DefaultEvents : WorkspaceKeyDown(event)
    \/ \E event \in DefaultEvents : UnhandledKeyDown(event)

SpecOnload == InitOnload /\ [][NextOnload]_vars

\* ---------------------------------------------------------------------------
\* onload over persisted and default key maps (SpecOnload)
\* ---------------------------------------------------------------------------
\* the chord sequence of the k-th key map of the loaded list
LoadedSequence(k) ==
    LET keymap == heap[settings.hotkeys[k].ref]
    IN  IF hasRepr(keymap) THEN keymap.sequence ELSE keymap.json.sequence

\* the loaded list holds two key maps with the same chord sequence, or one
\* whose sequence is a proper prefix of an earlier one's
HoldsDuplicate ==
    \E i, j \in 1..Len(settings.hotkeys) :
        i < j /\ IsPrefix(LoadedSequence(j), LoadedSequence(i))

\* C36: if the persisted list holds two bindings with identical chord
\* sequences, or one that is a proper prefix of an earlier one, _loadKeymaps
\* raises the duplicate-binding error and onload does not complete: no
\* KeyMatcher is constructed, no keydown handler is registered, no key event
\* is matched or intercepted.
C36_DuplicateStopsOnload ==
    (settings # Undefined /\ HoldsDuplicate) =>
        /\ loadError = DuplicateKeymap
        /\ matcher = Undefined
        /\ ~keydownRegistered
        /\ ~defaultPrevented
        /\ executed = <<>>

\* what does hold of an onload that an error ended, whichever the error
LoadErrorStopsOnload ==
    loadError # Undefined =>
        /\ matcher = Undefined
        /\ ~keydownRegistered
        /\ ~defaultPrevented
        /\ executed = <<>>

\* every persisted list that holds a key map ends onload with the TypeError
PersistedListEndsOnload ==
    (settings # Undefined /\ settings # defaultSettings /\ settings.hotkeys # <<>>) =>
        loadError = ReprIsNotAFunction

\* C37: the six default bindings insert into an empty trie in order without
\* an error, their sequences are pairwise distinct and prefix-free, and each
\* of the six is reached with SuccessMatch by typing its chords into a fresh
\* KeyMatcher.
C37_DefaultsLoadAndMatch ==
    /\ Len(defaultHotkeys) = 6
    /\ PrefixFree(defaultHotkeys)
    /\ settings = defaultSettings =>
           /\ loadError = Undefined
           /\ ~threw
           /\ matcher # Undefined
           /\ \A i \in 1..Len(defaultHotkeys) :
                  /\ HasPath(defaultHotkeys[i].sequence)
                  /\ fed = defaultHotkeys[i].sequence =>
                         /\ matcher.currentState = SuccessMatch
                         /\ fullMatch(matcher) = Handle(heap, i)
                         /\ executed = <<defaultHotkeys[i].commandID>>

\* the nine chords of the last default binding were typed after a first-run
\* onload and its command was dispatched
C37_Witness ==
    /\ settings = defaultSettings
    /\ keydownRegistered
    /\ fed = defaultHotkeys[6].sequence
    /\ Len(fed) = 9
    /\ matcher.currentState = SuccessMatch
    /\ fullMatch(matcher) = Handle(heap, 6)
    /\ executed = <<"command-palette:open">>

\* =================================================================
\* The StateMachine of the earlier snapshot, next to the KeyMatcher
\* =================================================================
\* MatchingState
LeaderMatch == "LeaderMatch"
PartialMatch == "PartialMatch"
FullMatch == "FullMatch"
ExitMatch == "ExitMatch"

\* What Array.join makes of this.key: null and undefined give no text.
joinText(key) == IF key = NullKey \/ key = UndefinedKey THEN "" ELSE key

\* KeyPress.repr() of the earlier snapshot
earlierRepr(k) ==
    LET metaRepr == IF k.meta THEN "<U+2318> + " ELSE ""
        altRepr == IF k.alt THEN "Alt + " ELSE ""
        ctrlRepr == IF k.ctrl THEN "Ctrl + " ELSE ""
        shiftRepr == IF k.shift THEN "<U+21E7> + " ELSE ""
    IN  metaRepr \o ctrlRepr \o altRepr \o shiftRepr \o joinText(k.key)

earlierSerialize(k) == earlierRepr(k)

\* KeyPress.containsKey()
containsKey(k) ==
    /\ k.key # NullKey
    /\ k.key # UndefinedKey
    /\ k.key # "Alt"
    /\ k.key # "Control"
    /\ k.key # "Shift"
    /\ k.key # "Meta"

\* TrieNode.addChild(key, child) of the earlier snapshot: children.set alone
earlierAddChild(t, node, key) ==
    LET childPath == Append(node.path, key)
        withChild == IF childPath \in DOMAIN t THEN t ELSE t @@ (childPath :> NewTrieNode)
    IN  [withChild EXCEPT ![node.path].keys =
            IF key \in Range(@) THEN @ ELSE Append(@, key)]

\* TrieNode.allValues()
allValues(t, node) ==
    LET ls == leaves(t, node) IN [i \in 1..Len(ls) |-> t[ls[i].path].value]

RECURSIVE earlierAddWalk(_, _, _, _)
\* the for loop of Trie.add from the i-th component on
earlierAddWalk(t, lastSeenNode, sequence, i) ==
    IF i > Len(sequence) THEN [trie |-> t, lastSeenNode |-> lastSeenNode]
    ELSE LET key == earlierSerialize(sequence[i])
         IN  earlierAddWalk(earlierAddChild(t, lastSeenNode, key),
                            NodeAt(Append(lastSeenNode.path, key)), sequence, i + 1)

\* Trie.add(composite) of the earlier snapshot
earlierTrieAdd(t, composite) ==
    LET w == earlierAddWalk(t, root, composite.sequence, 1)
    IN  IF w.trie[w.lastSeenNode.path].value # Undefined
        THEN [trie |-> w.trie, threw |-> TRUE]
        ELSE [trie |-> setValue(w.trie, w.lastSeenNode, composite), threw |-> FALSE]

RECURSIVE earlierTrieFrom(_, _, _)
\* new Trie(keymaps): the for loop of the constructor from the i-th keymap on
earlierTrieFrom(t, keymaps, i) ==
    IF i > Len(keymaps) THEN [trie |-> t, threw |-> FALSE]
    ELSE LET r == earlierTrieAdd(t, keymaps[i])
         IN  IF r.threw THEN r ELSE earlierTrieFrom(r.trie, keymaps, i + 1)

RECURSIVE earlierBestMatchFrom(_, _, _, _)
\* the for loop of Trie.bestMatch from the i-th key press on
earlierBestMatchFrom(t, lastNode, sequence, i) ==
    IF i > Len(sequence) THEN lastNode
    ELSE LET c == child(t, lastNode, earlierSerialize(sequence[i]))
         IN  IF c = Undefined THEN Null
             ELSE earlierBestMatchFrom(t, c, sequence, i + 1)

earlierBestMatch(t, sequence) == earlierBestMatchFrom(t, root, sequence, 1)

\* new StateMachine(hotkeys), given the trie its constructor built
StateMachine(t) ==
    [trie |-> t, currentState |-> NoMatch, keyPressBuffer |-> <<>>,
     availableCommands |-> <<>>]

\* StateMachine.clear()
clear(m) ==
    [m EXCEPT !.currentState = NoMatch, !.keyPressBuffer = <<>>, !.availableCommands = <<>>]

\* the if chain of the cases LeaderMatch and PartialMatch that tells a leaf
\* from an inner node the other way round
continueEarlier_LeafIsPartial(m, node) ==
    IF node = Null THEN [m EXCEPT !.currentState = ExitMatch]
    ELSE IF isLeaf(m.trie, node) THEN [m EXCEPT !.currentState = PartialMatch]
    ELSE [m EXCEPT !.currentState = FullMatch]

\* the if chain of the cases LeaderMatch and PartialMatch
continueEarlier(m, node) ==
    IF node = Null THEN [m EXCEPT !.currentState = ExitMatch]
    ELSE IF isLeaf(m.trie, node) THEN [m EXCEPT !.currentState = FullMatch]
    ELSE [m EXCEPT !.currentState = PartialMatch]

RECURSIVE stateMachineAdvance(_, _)
\* StateMachine.advance(keypress): the machine afterwards; the state returned
\* is its currentState.
stateMachineAdvance(m, keypress) ==
    LET pushed == Append(m.keyPressBuffer, keypress)
        m1 == [m EXCEPT !.keyPressBuffer = pushed]
        node == earlierBestMatch(m.trie, pushed)
        m2 == [m1 EXCEPT !.availableCommands =
                  IF node # Null THEN allValues(m.trie, node) ELSE <<>>]
    IN  CASE m.currentState = NoMatch ->
                 IF node = Null THEN [clear(m2) EXCEPT !.currentState = NoMatch]
                 ELSE IF isLeaf(m.trie, node) THEN [m2 EXCEPT !.currentState = FullMatch]
                 ELSE [m2 EXCEPT !.currentState = LeaderMatch]
          [] m.currentState \in {LeaderMatch, PartialMatch} ->
                 IF ~containsKey(keypress)
                 THEN [m1 EXCEPT !.keyPressBuffer = SubSeq(@, 1, Len(@) - 1),
                                 !.currentState = PartialMatch]
                 ELSE continueEarlier(m2, node)
          [] m.currentState \in {FullMatch, ExitMatch} ->
                 stateMachineAdvance(clear(m1), keypress)

\* StateMachine.getFullyMatchedKeymap()
getFullyMatchedKeymap(m) ==
    LET availableCommandLength == Len(m.availableCommands)
        isFullMatch == m.currentState = FullMatch
    IN  IF isFullMatch /\ availableCommandLength # 1 THEN Null
        ELSE IF isFullMatch /\ availableCommandLength = 1 THEN m.availableCommands[1]
        ELSE Null

\* Both machines are made over the key maps added so far: new KeyMatcher(trie)
\* and new StateMachine(hotkeys).
ConstructMachines ==
    /\ matcher = Undefined
    /\ LET r == earlierTrieFrom(NewTrie, hotkeys, 1)
       IN  /\ ~r.threw
           /\ stateMachine' = StateMachine(r.trie)
    /\ matcher' = NewKeyMatcher
    /\ UNCHANGED <<trie, hotkeys, threw, fed, defaultPrevented, executed>>
    /\ UNCHANGED <<trieVars, modalVars, settingsVars, keyPressVars, onloadVars>>

\* The same key press is handed to advance of both machines.
AdvanceMachines(event) ==
    /\ matcher # Undefined
    /\ Len(fed) < MaxKeys
    /\ LET keypress == fromEvent(event)
       IN  /\ matcher' = advance(matcher, trie, keypress)
           /\ stateMachine' = stateMachineAdvance(stateMachine, keypress)
           /\ fed' = Append(fed, keypress)
    /\ UNCHANGED <<trie, hotkeys, threw, defaultPrevented, executed>>
    /\ UNCHANGED <<trieVars, modalVars, settingsVars, keyPressVars, onloadVars>>

NextRefine ==
    \/ \E keymap \in KeyMaps : AddKeymap(keymap)
    \/ ConstructMachines
    \/ \E event \in Events : AdvanceMachines(event)

SpecRefine == Init /\ [][NextRefine]_vars

\* ---------------------------------------------------------------------------
\* KeyMatcher against the earlier StateMachine (SpecRefine)
\* ---------------------------------------------------------------------------
\* the state of the StateMachine a state of the KeyMatcher corresponds to
Corresponding(state) ==
    CASE state = NoMatch -> NoMatch
      [] state = StartedMatch -> LeaderMatch
      [] state = RetainedMatch -> PartialMatch
      [] state = ImprovedMatch -> PartialMatch
      [] state = SuccessMatch -> FullMatch
      [] state = InvalidMatch -> ExitMatch

\* C38: for every prefix-free binding set and every chord sequence, after each
\* step the state of the StateMachine is the one the state of the KeyMatcher
\* corresponds to (NoMatch to NoMatch, StartedMatch to LeaderMatch,
\* RetainedMatch and ImprovedMatch to PartialMatch, SuccessMatch to FullMatch,
\* InvalidMatch to ExitMatch), the buffers are equal, and fullMatch() equals
\* getFullyMatchedKeymap().
C38_MatcherRefinesStateMachine ==
    (matcher # Undefined /\ ~threw /\ PrefixFree(hotkeys)) =>
        /\ stateMachine.currentState = Corresponding(matcher.currentState)
        /\ stateMachine.keyPressBuffer = matcher.currentSequence
        /\ getFullyMatchedKeymap(stateMachine) = fullMatch(matcher)

\* over two bindings, a chord, a modifier pressed alone and a second chord
\* brought both machines to the full match of one binding
C38_Witness ==
    /\ matcher # Undefined
    /\ ~threw
    /\ Len(hotkeys) = 2
    /\ PrefixFree(hotkeys)
    /\ Len(fed) = 3
    /\ classification(fed[2]) = NoKey
    /\ matcher.currentState = SuccessMatch
    /\ stateMachine.currentState = FullMatch
    /\ getFullyMatchedKeymap(stateMachine) \in Range(hotkeys)
    /\ stateMachine.keyPressBuffer = <<fed[1], fed[3]>>

\* =================================================================
\* The keydown handler of main.ts
\* =================================================================
\* new KeymapTrie(keymaps): the constructor has an empty body
KeymapTrie(keymaps) == [class |-> "KeymapTrie"]

\* availableHotkeys that finds a hotkey
availableHotkeys_OneCommand(t, eventBuffer) ==
    <<Hotkey("h", FALSE, FALSE, "editor:focus-left")>>

\* KeymapTrie.availableHotkeys(eventBuffer): commands is declared and never
\* assigned
availableHotkeys(t, eventBuffer) ==
    LET commands == Undefined
    IN  IF commands # Undefined THEN commands ELSE <<>>

\* new StateMachine(hotkeys) of main.ts
MainStateMachine(keymaps) ==
    [trie |-> KeymapTrie(keymaps), currentState |-> NoMatch, eventBuffer |-> <<>>,
     availableHotkeys |-> <<>>, matchedHotkey |-> Null]

\* StateMachine.clear() of main.ts
mainClear(m) ==
    [m EXCEPT !.currentState = NoMatch, !.eventBuffer = <<>>, !.availableHotkeys = <<>>,
              !.matchedHotkey = Null]

RECURSIVE mainAdvance(_, _)
\* StateMachine.advance(event) of main.ts: the machine afterwards; the state
\* returned is its currentState.  The case NoMatch leaves the buffer as it is.
mainAdvance(m, event) ==
    LET pushed == Append(m.eventBuffer, event)
        m1 == [m EXCEPT !.eventBuffer = pushed]
        m2 == [m1 EXCEPT !.availableHotkeys = availableHotkeys(m.trie, pushed)]
        commandLength == Len(m2.availableHotkeys)
    IN  CASE m.currentState = NoMatch ->
                 IF commandLength = 0 THEN [m2 EXCEPT !.currentState = NoMatch]
                 ELSE IF commandLength = 1 THEN [m2 EXCEPT !.currentState = FullMatch]
                 ELSE [m2 EXCEPT !.currentState = LeaderMatch]
          [] m.currentState \in {LeaderMatch, PartialMatch} ->
                 IF commandLength = 0 THEN [m2 EXCEPT !.currentState = ExitMatch]
                 ELSE IF commandLength = 1 THEN [m2 EXCEPT !.currentState = FullMatch]
                 ELSE [m2 EXCEPT !.currentState = PartialMatch]
          [] m.currentState \in {FullMatch, ExitMatch} ->
                 mainAdvance(mainClear(m1), event)

\* StateMachine.getFullyMatchedKeymap() of main.ts
mainGetFullyMatchedKeymap(m) ==
    LET availableCommandLength == Len(m.availableHotkeys)
        isFullMatch == m.currentState = FullMatch
    IN  IF isFullMatch /\ availableCommandLength # 1 THEN Null
        ELSE IF ~isFullMatch /\ availableCommandLength = 1 THEN Null
        ELSE IF isFullMatch /\ availableCommandLength = 1 THEN m.availableHotkeys[1]
        ELSE Null

\* The plugin of main.ts after onload: _loadSettings has set this.settings
\* and this.state = new StateMachine(this.settings.hotkeys), and the keydown
\* handler is registered.
InitMainKeys ==
    /\ trie = NewTrie
    /\ hotkeys = <<>>
    /\ threw = FALSE
    /\ matcher = Undefined
    /\ fed = <<>>
    /\ defaultPrevented = FALSE
    /\ executed = <<>>
    /\ calls = <<>>
    /\ lookup = Undefined
    /\ NoModal
    /\ NoKeyPresses
    /\ NoOnload
    /\ \E savedSettings \in SavedSettingsMain :
           IF savedSettings = Undefined
           THEN settings = defaultSettingsMain /\ heap = defaultHotkeysMain
           ELSE /\ heap = savedSettings.hotkeys
                /\ settings = [hotkeys |-> [i \in 1..Len(savedSettings.hotkeys) |-> Ref(i)]]
    /\ stateMachine = MainStateMachine(settings.hotkeys)
    /\ tempNewHotkey = Undefined
    /\ notices = <<>>
    /\ savedData = Undefined
    /\ clicks = 0
    /\ openModal = Undefined

\* LeaderHotkeysPlugin.handleKeyDown(event) of main.ts
MainHandleKeyDown(event) ==
    /\ Len(fed) < MaxMainKeys
    /\ LET m == mainAdvance(stateMachine, event)
           currentState == m.currentState
           keymap == mainGetFullyMatchedKeymap(m)
       IN  /\ stateMachine' = m
           /\ fed' = Append(fed, event)
           /\ defaultPrevented' = (currentState # NoMatch)
           /\ executed' = IF currentState = FullMatch /\ keymap # Null
                          THEN <<keymap.commandID>>
                          ELSE <<>>
    /\ UNCHANGED <<trie, hotkeys, threw, matcher>>
    /\ UNCHANGED <<trieVars, modalVars, settingsVars, keyPressVars, onloadVars>>

NextMainKeys == \E event \in MainEvents : MainHandleKeyDown(event)

SpecMainKeys == InitMainKeys /\ [][NextMainKeys]_vars

\* ---------------------------------------------------------------------------
\* The keydown handler of main.ts (SpecMainKeys)
\* ---------------------------------------------------------------------------

====
